---- MODULE Spec2Model ----
(***************************************************************************)
(* The itinerary generate-and-save flow of the trip planner:               *)
(*   pages/plan_trip.py   render            (form validation, the call)    *)
(*   agents/itinerary_agent.py              generate_itinerary,            *)
(*                                          _check_duplicate_trip,         *)
(*                                          _save_trip_to_db               *)
(*   config/database.py   DatabaseConnection (one shared connection/cursor)*)
(*                                                                         *)
(* Dates are day numbers, budgets are whole currency units.  For whole     *)
(* budgets b, c the comparisons  c*0.9 <= b  and  b <= c*1.1  on doubles   *)
(* agree with the exact ones (the rounding error of c*0.9 and c*1.1 is far *)
(* below 1/10), so they are computed exactly, in tenths.                   *)
(* The fields currency, trip_type, food_preference of a request take no    *)
(* part in any branch and are left out of the rows.  Strings are compared  *)
(* exactly (the table's collation is not part of the sources).             *)
(***************************************************************************)
EXTENDS Integers, FiniteSets, Sequences, TLC

\* ---------------------------------------------------------------- values
\* Python None where an id is expected (user_id, trip_id, lastrowid)
None == 0
\* Python None / SQL NULL where the optional state string is expected
NULL == "NULL"

\* ---------------------------------------------------------------- bounds
\* at most this many rows are inserted before the page stops taking requests
MaxTrips == 2
\* rows already persisted when the duplicate lookup is exercised on its own
MaxStored == 2
\* day numbers 1..MaxDay for the dates of the lookup's inputs
MaxDay == 3

\* browser sessions, each running the page script in its own thread
Sessions == {"s1", "s2"}

VARIABLES
    trips,          \* the rows of table trips
    nextId,         \* the table's AUTO_INCREMENT counter
    lastrowid,      \* cursor.lastrowid of the one shared cursor
    errorLog,       \* messages written with logger.error
    pc,             \* per session: where its page script stands
    args,           \* per session: the arguments of generate_itinerary
    user_id,        \* per session: the local user_id (reset on a duplicate)
    dup,            \* per session: what _check_duplicate_trip returned ("True", "False")
    llm,            \* per session: what llm.generate_itinerary returned
    trip_id,        \* per session: the local trip_id
    result,         \* per session: what generate_itinerary handed back
    count,          \* per session: the calls this invocation has made so far
    prompt_days,    \* per session: the num_days handed to llm.generate_itinerary
    n_days,         \* LLMHandler.generate_itinerary: its argument num_days
    max_tokens,     \* the max_tokens handed to generate_json_response
    reply,          \* what the provider does with the one chat completion
    response,       \* what generate_response returned
    json_str,       \* the local json_str of generate_json_response
    parsed,         \* what generate_json_response returned
    ran,            \* the steps of generate_json_response that were run
    hpc,            \* where the handler call stands
    call,           \* the operation of an agent or query module that was called
    ret,            \* what that operation returned
    destinations_cache, \* the rows of table destinations_cache
    listings,       \* the rows of tables hotels and restaurants
    provider_calls, \* the chat completions get_destination_info asked for
    generated       \* per city and country: the info last generated for them

\* the variables of the flows and those of one LLMHandler call
fvars == <<trips, nextId, lastrowid, errorLog, pc, args, user_id, dup, llm, trip_id, result,
           count, prompt_days>>
hvars == <<n_days, max_tokens, reply, response, json_str, parsed, ran, hpc>>
avars == <<call, ret, destinations_cache, listings, provider_calls, generated>>
vars == <<fvars, hvars, avars>>

\* ------------------------------------------------------- pure functions
\* mutant: the last day is not counted
calculate_days_between_Exclusive(start_date, end_date) == end_date - start_date

\* helpers.calculate_days_between
calculate_days_between(start_date, end_date) == (end_date - start_date) + 1

\* pages/itineraries.render_saved_trip_card: the duration shown for a saved
\* trip (the dates of a row come back as dates)
duration(trip) == (trip.end_date - trip.start_date) + 1

\* MySQL DATEDIFF(a, b): a - b in days
DATEDIFF(a, b) == a - b

\* mutants: no tolerance below the candidate's budget; none above it; 20%
\* above it
budget_min10_NoTolerance(budget) == budget * 10
budget_max10_NoTolerance(budget) == budget * 10
budget_max10_Wide(budget) == budget * 12

\* budget * 0.9 and budget * 1.1, in tenths
budget_min10(budget) == budget * 9
budget_max10(budget) == budget * 11

\* x BETWEEN lo AND hi, all in tenths
BETWEEN10(x10, lo10, hi10) == lo10 <= x10 /\ x10 <= hi10

\* `if state:` -- None and the empty string are falsy
Truthy(s) == s # NULL /\ s # ""

\* the state condition appended to the query
StateClause(row, state) ==
    IF Truthy(state)
    THEN row.destination_state = state
    ELSE row.destination_state = NULL \/ row.destination_state = ""

\* mutant: the query without `user_id = %s`
DuplicateWhere_AnyUser(row, uid, city, state, country, num_days, budget, num_people) ==
    /\ row.destination_city = city
    /\ row.destination_country = country
    /\ DATEDIFF(row.end_date, row.start_date) + 1 = num_days
    /\ BETWEEN10(row.budget * 10, budget_min10(budget), budget_max10(budget))
    /\ row.num_people = num_people
    /\ StateClause(row, state)

\* the WHERE clause of the duplicate query, for one row
DuplicateWhere(row, uid, city, state, country, num_days, budget, num_people) ==
    /\ row.user_id = uid
    /\ row.destination_city = city
    /\ row.destination_country = country
    /\ DATEDIFF(row.end_date, row.start_date) + 1 = num_days
    /\ BETWEEN10(row.budget * 10, budget_min10(budget), budget_max10(budget))
    /\ row.num_people = num_people
    /\ StateClause(row, state)

\* SELECT trip_id FROM trips WHERE ... : the ids of the matching rows
DuplicateQuery(rows, uid, city, state, country, num_days, budget, num_people) ==
    { row.trip_id : row \in
        { r \in rows : DuplicateWhere(r, uid, city, state, country, num_days, budget, num_people) } }

\* the row INSERTed for a request; a None state is stored as NULL
NewRow(id, uid, a, json) ==
    [ trip_id |-> id, user_id |-> uid,
      destination_city |-> a.city, destination_state |-> a.state,
      destination_country |-> a.country,
      start_date |-> a.start_date, end_date |-> a.end_date,
      budget |-> a.budget, num_people |-> a.num_people,
      itinerary_json |-> json ]

\* ------------------------------------------------------------ the flows
NoArgs == [ user_id |-> None, city |-> "", state |-> NULL, country |-> "",
            start_date |-> 0, end_date |-> 0, budget |-> 0, num_people |-> 0 ]

Pending     == [ kind |-> "pending",   content |-> "", trip_id |-> None, num_days |-> 0 ]
ReturnNone  == [ kind |-> "None",      content |-> "", trip_id |-> None, num_days |-> 0 ]
Raised      == [ kind |-> "raise",     content |-> "", trip_id |-> None, num_days |-> 0 ]
Itinerary(content, tid, n) ==
               [ kind |-> "itinerary", content |-> content, trip_id |-> tid, num_days |-> n ]

\* what llm.generate_itinerary can hand back: None after a provider error,
\* None after a parse error, a falsy parsed value ({} [] 0 "" null false),
\* a truthy value on which .get or the map-link pass raises (a list, string
\* or number, or days that are no mappings), or a mapping that passes
LLMOutcomes == {"ProviderError", "ParseError", "Falsy", "NonMapping", "Mapping"}

\* the itinerary the provider wrote for this session's request
ContentOf(s) == "itinerary of " \o s

FormArgs(form) ==
    [ user_id |-> form.user_id, city |-> form.city, state |-> form.state,
      country |-> form.country, start_date |-> form.start_date,
      end_date |-> form.end_date, budget |-> form.budget,
      num_people |-> form.num_people ]

\* mutant: the validation without the test of the dates
FormValid_NoDateTest(form) ==
    /\ form.city # "" /\ form.country # ""
    /\ (form.country = "India" => Truthy(form.state))
    /\ ~ (form.budget <= 0)
    /\ form.trip_types # {}

\* the validation of render; "india" in country.lower() is country = "India"
FormValid(form) ==
    /\ form.city # "" /\ form.country # ""
    /\ (form.country = "India" => Truthy(form.state))
    /\ ~ (form.end_date < form.start_date)
    /\ ~ (form.budget <= 0)
    /\ form.trip_types # {}

Idle(s) == pc[s] \in {"idle", "rejected", "done"}

\* no call made yet in this invocation
NoCalls == [ llm |-> 0, check |-> 0, insert |-> 0 ]

\* Python None where a text is expected, and as a returned value
NoneText == <<"None">>
PyNone == <<"None", <<>>>>

\* the places for which destination info can be asked
Places == { <<"Pune", "India">>, <<"Goa", "India">> }

\* no operation of an agent was called, nothing is cached
AgentsIdle ==
    /\ call = [ op |-> "none" ]
    /\ ret = PyNone
    /\ destinations_cache = {}
    /\ listings = {}
    /\ provider_calls = 0
    /\ generated = [ place \in Places |-> PyNone ]

\* no LLMHandler call is under way
HandlerIdle ==
    /\ n_days = 0
    /\ max_tokens = 0
    /\ reply = [ kind |-> "none", text |-> NoneText ]
    /\ response = NoneText
    /\ json_str = NoneText
    /\ parsed = PyNone
    /\ ran = {}
    /\ hpc = "idle"

Init ==
    /\ trips = {}
    /\ nextId = 1
    /\ lastrowid = None
    /\ errorLog = {}
    /\ pc = [s \in Sessions |-> "idle"]
    /\ args = [s \in Sessions |-> NoArgs]
    /\ user_id = [s \in Sessions |-> None]
    /\ dup = [s \in Sessions |-> "unchecked"]
    /\ llm = [s \in Sessions |-> "uncalled"]
    /\ trip_id = [s \in Sessions |-> None]
    /\ result = [s \in Sessions |-> Pending]
    /\ count = [s \in Sessions |-> NoCalls]
    /\ prompt_days = [s \in Sessions |-> 0]
    /\ HandlerIdle
    /\ AgentsIdle

\* mutant: the duplicate check is skipped
FirstStep_NoCheck(uid) == "generate"

\* `if user_id:` -- only a request with a user_id runs the duplicate check
FirstStep(uid) == IF uid # None THEN "check" ELSE "generate"

\* render: the form is submitted; an invalid form is rejected with st.error,
\* a valid one calls generate_itinerary, whose first step is
\* `if user_id:` the duplicate check
render(s, form) ==
    /\ Idle(s)
    /\ nextId <= MaxTrips
    /\ dup' = [dup EXCEPT ![s] = "unchecked"]
    /\ llm' = [llm EXCEPT ![s] = "uncalled"]
    /\ trip_id' = [trip_id EXCEPT ![s] = None]
    /\ result' = [result EXCEPT ![s] = Pending]
    /\ IF FormValid(form)
       THEN /\ args' = [args EXCEPT ![s] = FormArgs(form)]
            /\ user_id' = [user_id EXCEPT ![s] = form.user_id]
            /\ pc' = [pc EXCEPT ![s] = FirstStep(form.user_id)]
       ELSE /\ args' = [args EXCEPT ![s] = NoArgs]
            /\ user_id' = [user_id EXCEPT ![s] = None]
            /\ pc' = [pc EXCEPT ![s] = "rejected"]
    /\ count' = [count EXCEPT ![s] = NoCalls]
    /\ prompt_days' = [prompt_days EXCEPT ![s] = 0]
    /\ UNCHANGED <<trips, nextId, lastrowid, errorLog>>
    /\ UNCHANGED <<hvars, avars>>

\* mutant: a lookup that raises counts as a duplicate
check_duplicate_result_FailClosed(rows, uid, a, dbError) ==
    IF dbError
    THEN TRUE
    ELSE DuplicateQuery(rows, uid, a.city, a.state, a.country,
                        calculate_days_between(a.start_date, a.end_date),
                        a.budget, a.num_people) # {}

\* what _check_duplicate_trip returns: len(result) > 0, or False when
\* execute_query raised
check_duplicate_result(rows, uid, a, dbError) ==
    IF dbError
    THEN FALSE
    ELSE DuplicateQuery(rows, uid, a.city, a.state, a.country,
                        calculate_days_between(a.start_date, a.end_date),
                        a.budget, a.num_people) # {}

\* mutant: a duplicate is saved all the same
UserIdAfterCheck_Keep(uid, d) == uid

\* `user_id = None  # Don't save this trip` when the check said duplicate
UserIdAfterCheck(uid, d) == IF d THEN None ELSE uid

\* _check_duplicate_trip and the `if` around it: on a duplicate the local
\* user_id is set to None
check_duplicate_trip(s, dbError) ==
    /\ pc[s] = "check"
    /\ LET d == check_duplicate_result(trips, user_id[s], args[s], dbError) IN
        /\ dup' = [dup EXCEPT ![s] = IF d THEN "True" ELSE "False"]
        /\ user_id' = [user_id EXCEPT ![s] = UserIdAfterCheck(@, d)]
    /\ errorLog' = IF dbError THEN errorLog \cup {"Error checking duplicate trip"} ELSE errorLog
    /\ pc' = [pc EXCEPT ![s] = "generate"]
    /\ count' = [count EXCEPT ![s].check = @ + 1]
    /\ UNCHANGED <<trips, nextId, lastrowid, args, llm, trip_id, result, prompt_days>>
    /\ UNCHANGED <<hvars, avars>>

\* mutant: a logged-in flow goes on to the INSERT whatever came back
AfterGenerate_SaveAnyway(s, out) == IF user_id[s] # None THEN "save" ELSE "done"

\* where the flow goes once the provider call is back
AfterGenerate(s, out) ==
    CASE out \in {"ProviderError", "ParseError", "Falsy"} -> "done"
      [] out = "NonMapping" -> "done"
      [] OTHER -> IF user_id[s] # None THEN "save" ELSE "done"

\* what generate_itinerary hands back when it ends right after the call
ResultAfterGenerate(s, out) ==
    CASE out \in {"ProviderError", "ParseError", "Falsy"} -> ReturnNone
      [] out = "NonMapping" -> Raised
      [] OTHER ->
           IF user_id[s] # None
           THEN Pending
           ELSE Itinerary(ContentOf(s), None,
                          calculate_days_between(args[s].start_date, args[s].end_date))

\* llm.generate_itinerary, the None test, the map links, and for a request
\* that is not to be saved the metadata and the return
generate(s, out) ==
    /\ pc[s] = "generate"
    /\ llm' = [llm EXCEPT ![s] = out]
    /\ pc' = [pc EXCEPT ![s] = AfterGenerate(s, out)]
    /\ result' = [result EXCEPT ![s] = ResultAfterGenerate(s, out)]
    /\ errorLog' =
         CASE out \in {"ProviderError", "ParseError", "Falsy"} ->
                errorLog \cup {"LLM returned None for itinerary"}
           [] out = "NonMapping" -> errorLog \cup {"Error in generate_itinerary"}
           [] OTHER -> errorLog
    /\ count' = [count EXCEPT ![s].llm = @ + 1]
    /\ prompt_days' = [prompt_days EXCEPT ![s] =
         calculate_days_between(args[s].start_date, args[s].end_date)]
    /\ UNCHANGED <<trips, nextId, lastrowid, args, user_id, dup, trip_id>>
    /\ UNCHANGED <<hvars, avars>>

\* mutant: the INSERT looks at the table again and adds nothing beside an
\* equivalent row (check and insert as one step)
InsertedRows_Unique(rows, id, uid, a, json) ==
    IF DuplicateQuery(rows, uid, a.city, a.state, a.country,
                      calculate_days_between(a.start_date, a.end_date),
                      a.budget, a.num_people) # {}
    THEN rows
    ELSE rows \cup {NewRow(id, uid, a, json)}

\* the rows after the INSERT of _save_trip_to_db was executed and committed
InsertedRows(rows, id, uid, a, json) == rows \cup {NewRow(id, uid, a, json)}

\* _save_trip_to_db up to execute_query: the INSERT and its commit, or the
\* exception, which is logged and turned into trip_id None
save_trip_to_db(s, dbError) ==
    /\ pc[s] = "save"
    /\ IF dbError
       THEN /\ errorLog' = errorLog \cup {"Error saving trip to database"}
            /\ trip_id' = [trip_id EXCEPT ![s] = None]
            /\ result' = [result EXCEPT ![s] =
                 Itinerary(ContentOf(s), None,
                           calculate_days_between(args[s].start_date, args[s].end_date))]
            /\ pc' = [pc EXCEPT ![s] = "done"]
            /\ UNCHANGED <<trips, nextId, lastrowid>>
       ELSE /\ trips' = InsertedRows(trips, nextId, user_id[s], args[s], ContentOf(s))
            /\ nextId' = nextId + 1
            /\ lastrowid' = nextId
            /\ pc' = [pc EXCEPT ![s] = "lastid"]
            /\ UNCHANGED <<errorLog, trip_id, result>>
    /\ count' = [count EXCEPT ![s].insert = @ + 1]
    /\ UNCHANGED <<args, user_id, dup, llm, prompt_days>>
    /\ UNCHANGED <<hvars, avars>>

\* db.get_last_insert_id(), then the metadata and the return
get_last_insert_id(s) ==
    /\ pc[s] = "lastid"
    /\ trip_id' = [trip_id EXCEPT ![s] = lastrowid]
    /\ result' = [result EXCEPT ![s] =
         Itinerary(ContentOf(s), lastrowid,
                   calculate_days_between(args[s].start_date, args[s].end_date))]
    /\ pc' = [pc EXCEPT ![s] = "done"]
    /\ UNCHANGED <<trips, nextId, lastrowid, errorLog, args, user_id, dup, llm, count, prompt_days>>
    /\ UNCHANGED <<hvars, avars>>

\* ---------------------------------------------------- the page's inputs
\* what the form can hold in the interleaved runs
ValidForm(uid, b) ==
    [ user_id |-> uid, city |-> "Pune", state |-> NULL, country |-> "Nepal",
      start_date |-> 1, end_date |-> 2, budget |-> b,
      trip_types |-> {"Adventure"}, num_people |-> 1 ]

\* one form for each test of the validation that can fail
InvalidForms ==
    { [ValidForm(1, 1000) EXCEPT !.city = ""],
      [ValidForm(1, 1000) EXCEPT !.country = ""],
      [ValidForm(1, 1000) EXCEPT !.country = "India", !.state = ""],
      [ValidForm(1, 1000) EXCEPT !.start_date = 2, !.end_date = 1],
      [ValidForm(1, 1000) EXCEPT !.budget = 0],
      [ValidForm(1, 1000) EXCEPT !.trip_types = {}] }

RaceForms ==
    { ValidForm(uid, b) : uid \in {None, 1}, b \in {1000, 1050} } \cup InvalidForms

Next ==
    \/ \E s \in Sessions : \E form \in RaceForms : render(s, form)
    \/ \E s \in Sessions : \E dbError \in BOOLEAN : check_duplicate_trip(s, dbError)
    \/ \E s \in Sessions : \E out \in LLMOutcomes : generate(s, out)
    \/ \E s \in Sessions : \E dbError \in BOOLEAN : save_trip_to_db(s, dbError)
    \/ \E s \in Sessions : get_last_insert_id(s)

\* sessions that interleave freely
Spec == Init /\ [][Next]_vars

\* ------------------------------------------- one request after the other
SeqForms ==
    { ValidForm(uid, b) : uid \in {None, 1, 2}, b \in {900, 1000, 1050} }
    \cup { [ValidForm(1, b) EXCEPT !.country = "India", !.state = "MH"] : b \in {1000, 1050} }
    \cup { [ValidForm(1, b) EXCEPT !.start_date = 2] : b \in {1000, 1050} }
    \cup InvalidForms

\* the session whose requests follow one another; the others stay idle
SeqSessions == {"s1"}

NextSeq ==
    \/ \E s \in SeqSessions : \E form \in SeqForms : render(s, form)
    \/ \E s \in SeqSessions : \E dbError \in BOOLEAN : check_duplicate_trip(s, dbError)
    \/ \E s \in SeqSessions : \E out \in LLMOutcomes : generate(s, out)
    \/ \E s \in SeqSessions : \E dbError \in BOOLEAN : save_trip_to_db(s, dbError)
    \/ \E s \in SeqSessions : get_last_insert_id(s)

\* requests that never overlap: each is submitted when the one before it
\* has returned
SpecSeq == Init /\ [][NextSeq]_vars

\* ------------------------------------- the duplicate lookup on its own
Days == 1..MaxDay

\* forms that are valid but for their dates: every pair of days, in order
\* or not
DateForms ==
    { [ValidForm(uid, 1000) EXCEPT !.start_date = p[1], !.end_date = p[2]] :
        uid \in {None, 1}, p \in Days \X Days }

NextDates ==
    \/ \E s \in SeqSessions : \E form \in DateForms : render(s, form)
    \/ \E s \in SeqSessions : \E dbError \in BOOLEAN : check_duplicate_trip(s, dbError)
    \/ \E s \in SeqSessions : \E out \in LLMOutcomes : generate(s, out)
    \/ \E s \in SeqSessions : \E dbError \in BOOLEAN : save_trip_to_db(s, dbError)
    \/ \E s \in SeqSessions : get_last_insert_id(s)

\* requests, one after the other, whose dates the page has to judge
SpecDates == Init /\ [][NextDates]_vars

\* a persisted row of user 1, without its trip_id
BaseStored(b) ==
    [ user_id |-> 1, destination_city |-> "Pune", destination_state |-> "MH",
      destination_country |-> "India", start_date |-> 1, end_date |-> 2,
      budget |-> b, num_people |-> 1 ]

StoredBudgets == {900, 1000, 1100}

\* the rows that differ from the base row in at most one attribute besides
\* the budget
StoredRows ==
    UNION { { BaseStored(b) }
            \cup { [BaseStored(b) EXCEPT !.user_id = 2],
                   [BaseStored(b) EXCEPT !.destination_city = "Goa"],
                   [BaseStored(b) EXCEPT !.destination_country = "Nepal"],
                   [BaseStored(b) EXCEPT !.destination_state = NULL],
                   [BaseStored(b) EXCEPT !.destination_state = ""],
                   [BaseStored(b) EXCEPT !.num_people = 2] }
            \cup { [BaseStored(b) EXCEPT !.start_date = p[1], !.end_date = p[2]] :
                     p \in { q \in Days \X Days : q[2] >= q[1] } }
          : b \in StoredBudgets }

CandidateBudgets == {899, 900, 909, 910, 1000, 1050, 1099, 1100, 1101, 1111, 1112}

\* the candidates: user 1, Pune, India, days 1..2, one person
Candidates ==
    { [ user_id |-> 1, city |-> "Pune", state |-> st, country |-> "India",
        start_date |-> 1, end_date |-> 2, budget |-> b, num_people |-> 1 ]
      : st \in {NULL, "", "MH"}, b \in CandidateBudgets }

\* the subsets of S with at most k elements
RECURSIVE SubsetsUpTo(_, _)
SubsetsUpTo(S, k) ==
    IF k = 0 THEN { {} }
    ELSE LET less == SubsetsUpTo(S, k - 1) IN
         less \cup { T \cup {x} : T \in less, x \in S }

\* trip ids 1..n for n stored rows
Numbering(S) == CHOOSE f \in [S -> 1..Cardinality(S)] : \A x, y \in S : x # y => f[x] # f[y]

StoredTable(S) ==
    LET f == Numbering(S) IN
    { [ trip_id |-> f[r], user_id |-> r.user_id,
        destination_city |-> r.destination_city,
        destination_state |-> r.destination_state,
        destination_country |-> r.destination_country,
        start_date |-> r.start_date, end_date |-> r.end_date,
        budget |-> r.budget, num_people |-> r.num_people,
        itinerary_json |-> "stored" ] : r \in S }

\* session s1 has called generate_itinerary and stands before the check
InitDup ==
    /\ \E S \in SubsetsUpTo(StoredRows, MaxStored) :
         /\ trips = StoredTable(S)
         /\ nextId = Cardinality(S) + 1
    /\ lastrowid = None
    /\ errorLog = {}
    /\ \E c \in Candidates :
         /\ args = [s \in Sessions |-> IF s = "s1" THEN c ELSE NoArgs]
         /\ user_id = [s \in Sessions |-> IF s = "s1" THEN c.user_id ELSE None]
    /\ pc = [s \in Sessions |-> IF s = "s1" THEN "check" ELSE "idle"]
    /\ dup = [s \in Sessions |-> "unchecked"]
    /\ llm = [s \in Sessions |-> "uncalled"]
    /\ trip_id = [s \in Sessions |-> None]
    /\ result = [s \in Sessions |-> Pending]
    /\ count = [s \in Sessions |-> NoCalls]
    /\ prompt_days = [s \in Sessions |-> 0]
    /\ HandlerIdle
    /\ AgentsIdle

NextDup == \E s \in Sessions : \E dbError \in BOOLEAN : check_duplicate_trip(s, dbError)

SpecDup == InitDup /\ [][NextDup]_vars

\* one flow alone, from its duplicate check to its return, over a table
\* that holds the same trip, the trip of another user, another trip
InitLookup ==
    /\ \E S \in SubsetsUpTo({ BaseStored(1000), [BaseStored(1000) EXCEPT !.user_id = 2],
                              [BaseStored(1100) EXCEPT !.destination_city = "Goa"] },
                            MaxStored) :
         /\ trips = StoredTable(S)
         /\ nextId = Cardinality(S) + 1
    /\ lastrowid = None
    /\ errorLog = {}
    /\ \E c \in { k \in Candidates : k.state = "MH" /\ k.budget \in {1000, 1112} } :
         /\ args = [s \in Sessions |-> IF s = "s1" THEN c ELSE NoArgs]
         /\ user_id = [s \in Sessions |-> IF s = "s1" THEN c.user_id ELSE None]
    /\ pc = [s \in Sessions |-> IF s = "s1" THEN "check" ELSE "idle"]
    /\ dup = [s \in Sessions |-> "unchecked"]
    /\ llm = [s \in Sessions |-> "uncalled"]
    /\ trip_id = [s \in Sessions |-> None]
    /\ result = [s \in Sessions |-> Pending]
    /\ count = [s \in Sessions |-> NoCalls]
    /\ prompt_days = [s \in Sessions |-> 0]
    /\ HandlerIdle
    /\ AgentsIdle

NextLookup ==
    \/ \E dbError \in BOOLEAN : check_duplicate_trip("s1", dbError)
    \/ \E out \in LLMOutcomes : generate("s1", out)
    \/ \E dbError \in BOOLEAN : save_trip_to_db("s1", dbError)
    \/ get_last_insert_id("s1")

SpecLookup == InitLookup /\ [][NextLookup]_vars

\* =====================================================================
\* utils/llm_handler.py: one call of LLMHandler.generate_itinerary, that is
\* generate_response and generate_json_response.  A text is a sequence of
\* characters; an index is counted from 1, and 0 stands for Python's -1.
\* =====================================================================

\* at most this many members in a generated object, elements in an array
MaxItems == 2
\* the trip lengths for which the token budget is computed
MaxNumDays == 40

\* the backtick character (the one character that is not written as itself)
Backtick == "backtick"

Fence == <<Backtick, Backtick, Backtick>>
JsonFence == Fence \o <<"j", "s", "o", "n">>

\* the whitespace the texts can hold; str.strip, the regex \s and the JSON
\* grammar all take both characters for whitespace
Whitespace == {" ", "\n"}

\* s[i:].startswith(pat)
StartsAt(s, pat, i) ==
    /\ i + Len(pat) - 1 <= Len(s)
    /\ SubSeq(s, i, i + Len(pat) - 1) = pat

\* s.find(pat, i)
RECURSIVE find(_, _, _)
find(s, pat, i) ==
    IF i + Len(pat) - 1 > Len(s) THEN 0
    ELSE IF StartsAt(s, pat, i) THEN i
    ELSE find(s, pat, i + 1)

\* s.rfind(c) for a character c, looking down from i
RECURSIVE rfind(_, _, _)
rfind(s, c, i) ==
    IF i = 0 THEN 0
    ELSE IF s[i] = c THEN i
    ELSE rfind(s, c, i - 1)

\* `pat in s`
Contains(s, pat) == find(s, pat, 1) # 0

\* s.split(sep)
RECURSIVE split(_, _)
split(s, sep) ==
    LET i == find(s, sep, 1) IN
    IF i = 0 THEN <<s>>
    ELSE <<SubSeq(s, 1, i - 1)>> \o split(SubSeq(s, i + Len(sep), Len(s)), sep)

RECURSIVE lstrip(_)
lstrip(s) == IF s # <<>> /\ Head(s) \in Whitespace THEN lstrip(Tail(s)) ELSE s

RECURSIVE rstrip(_)
rstrip(s) ==
    IF s # <<>> /\ s[Len(s)] \in Whitespace THEN rstrip(SubSeq(s, 1, Len(s) - 1)) ELSE s

\* s.strip()
strip(s) == rstrip(lstrip(s))

\* ------------------------------------------------------------ json.loads
\* Parsed values: <<"dict", the set of <<key, value>>>>, <<"list", the
\* sequence of values>>, <<"str", its characters>>, <<"int", its digits>>,
\* and PyNone for null.  The grammar is that of json.loads for the
\* characters the texts can hold: objects, arrays, strings without escapes
\* (a raw newline in a string is an error), numbers of digits 1, and null.
Null == <<"n", "u", "l", "l">>

ParseError == [ ok |-> FALSE, val |-> PyNone, pos |-> 0 ]
Parsed(v, p) == [ ok |-> TRUE, val |-> v, pos |-> p ]

\* the first index from i on that holds no whitespace (Len(s) + 1 when none)
RECURSIVE SkipWhitespace(_, _)
SkipWhitespace(s, i) ==
    IF i <= Len(s) /\ s[i] \in Whitespace THEN SkipWhitespace(s, i + 1) ELSE i

\* a string that opens at i
ParseString(s, i) ==
    LET j == find(s, <<"\"">>, i + 1) IN
    IF j = 0 \/ Contains(SubSeq(s, i + 1, j - 1), <<"\n">>)
    THEN ParseError
    ELSE Parsed(<<"str", SubSeq(s, i + 1, j - 1)>>, j + 1)

\* the end of the run of digits that starts at i
RECURSIVE DigitsEnd(_, _)
DigitsEnd(s, i) == IF i <= Len(s) /\ s[i] = "1" THEN DigitsEnd(s, i + 1) ELSE i

\* d[key] = value
Put(d, key, value) == { p \in d : p[1] # key } \cup { <<key, value>> }

RECURSIVE ParseValue(_, _)
RECURSIVE ParseMembers(_, _, _)
RECURSIVE ParseElements(_, _, _)

\* the members of an object from the key at i on, d holding those read
ParseMembers(s, i, d) ==
    IF i > Len(s) \/ s[i] # "\"" THEN ParseError
    ELSE LET key == ParseString(s, i) IN
         IF ~key.ok THEN ParseError
         ELSE LET colon == SkipWhitespace(s, key.pos) IN
              IF colon > Len(s) \/ s[colon] # ":" THEN ParseError
              ELSE LET value == ParseValue(s, SkipWhitespace(s, colon + 1)) IN
                   IF ~value.ok THEN ParseError
                   ELSE LET e == SkipWhitespace(s, value.pos)
                            d2 == Put(d, key.val[2], value.val) IN
                        IF e > Len(s) THEN ParseError
                        ELSE IF s[e] = "}" THEN Parsed(<<"dict", d2>>, e + 1)
                        ELSE IF s[e] = "," THEN ParseMembers(s, SkipWhitespace(s, e + 1), d2)
                        ELSE ParseError

\* the elements of an array from the value at i on, l holding those read
ParseElements(s, i, l) ==
    LET value == ParseValue(s, i) IN
    IF ~value.ok THEN ParseError
    ELSE LET e == SkipWhitespace(s, value.pos)
             l2 == Append(l, value.val) IN
         IF e > Len(s) THEN ParseError
         ELSE IF s[e] = "]" THEN Parsed(<<"list", l2>>, e + 1)
         ELSE IF s[e] = "," THEN ParseElements(s, SkipWhitespace(s, e + 1), l2)
         ELSE ParseError

\* the value that starts at i
ParseValue(s, i) ==
    IF i > Len(s) THEN ParseError
    ELSE IF s[i] = "{" THEN
        LET j == SkipWhitespace(s, i + 1) IN
        IF j <= Len(s) /\ s[j] = "}" THEN Parsed(<<"dict", {}>>, j + 1)
        ELSE ParseMembers(s, j, {})
    ELSE IF s[i] = "[" THEN
        LET j == SkipWhitespace(s, i + 1) IN
        IF j <= Len(s) /\ s[j] = "]" THEN Parsed(<<"list", <<>>>>, j + 1)
        ELSE ParseElements(s, j, <<>>)
    ELSE IF s[i] = "\"" THEN ParseString(s, i)
    ELSE IF s[i] = "1" THEN Parsed(<<"int", SubSeq(s, i, DigitsEnd(s, i) - 1)>>, DigitsEnd(s, i))
    ELSE IF StartsAt(s, Null, i) THEN Parsed(PyNone, i + Len(Null))
    ELSE ParseError

\* json.loads(s): ok is FALSE where it raises JSONDecodeError
loads(s) ==
    LET r == ParseValue(s, SkipWhitespace(s, 1)) IN
    IF r.ok /\ SkipWhitespace(s, r.pos) > Len(s)
    THEN [ ok |-> TRUE, val |-> r.val ]
    ELSE [ ok |-> FALSE, val |-> PyNone ]

\* ------------------------------------------- generate_json_response
\* mutant: the fences are not looked at
extract_json_str_NoFences(text) == strip(text)

\* mutant: the first fence is taken, tagged or not
extract_json_str_FirstFence(text) ==
    IF Contains(text, Fence)
    THEN strip(split(split(text, Fence)[2], Fence)[1])
    ELSE strip(text)

\* the json_str taken from the response: out of the first JSON-tagged fence,
\* else out of the first fence, else the whole text, stripped
extract_json_str(text) ==
    IF Contains(text, JsonFence)
    THEN strip(split(split(text, JsonFence)[2], Fence)[1])
    ELSE IF Contains(text, Fence)
    THEN strip(split(split(text, Fence)[2], Fence)[1])
    ELSE strip(text)

\* re.sub(r',\s*' + closer, closer, s), scanning from i
RECURSIVE re_sub(_, _, _)
re_sub(s, closer, i) ==
    IF i > Len(s) THEN <<>>
    ELSE LET j == SkipWhitespace(s, i + 1) IN
         IF s[i] = "," /\ j <= Len(s) /\ s[j] = closer
         THEN <<closer>> \o re_sub(s, closer, j + 1)
         ELSE <<s[i]>> \o re_sub(s, closer, i + 1)

\* mutant: nothing is cut away
slice_braces_Whole(s) == s

\* json_str[first_brace:last_brace + 1] when both braces are there, in order
slice_braces(s) ==
    LET first_brace == find(s, <<"{">>, 1)
        last_brace == rfind(s, "}", Len(s)) IN
    IF first_brace # 0 /\ last_brace # 0 /\ last_brace > first_brace
    THEN SubSeq(s, first_brace, last_brace)
    ELSE s

\* mutant: the slicing without the two substitutions
repair_SliceOnly(s) == slice_braces(s)

\* the two substitutions and the slicing
repair(s) == slice_braces(re_sub(re_sub(s, "}", 1), "]", 1))

\* mutant: the repairs are applied whether or not the first parse succeeded
NeedsRepair_Always(r) == TRUE

\* `except json.JSONDecodeError:` around the first json.loads
NeedsRepair(r) == ~r.ok

\* mutants: a provider error answered with a text; a failed parse answered
\* with the raw text; with an empty structure
ResponseOf_Fallback(r) == IF r.kind \in {"no_client", "raises"} THEN <<"{", "}">> ELSE r.text
ParseFailureValue_Carrying(text) == <<"ParseError", text>>
ParseFailureValue_Empty(text) == <<"dict", {}>>

\* what generate_response returns: None without a client and when the call
\* raised, else the message content
ResponseOf(r) == IF r.kind \in {"no_client", "raises"} THEN NoneText ELSE r.text

\* what generate_json_response returns when the second parse raised as well
ParseFailureValue(text) == PyNone

\* `if response:`
Falsy(text) == text = NoneText \/ text = <<>>

max(a, b) == IF a >= b THEN a ELSE b
min(a, b) == IF a <= b THEN a ELSE b

\* mutant: 800 tokens for a day
estimated_tokens_800(num_days) == max(8000, num_days * 800)

estimated_tokens(num_days) == max(8000, num_days * 600)

\* the max_tokens of LLMHandler.generate_itinerary
itinerary_max_tokens(num_days) == min(16000, estimated_tokens(num_days))

\* the flows' variables that the handler does not write
pvars == <<trips, nextId, lastrowid, pc, args, user_id, dup, llm, trip_id, result,
           count, prompt_days>>

\* LLMHandler.generate_itinerary up to its call of generate_json_response
llm_generate_itinerary ==
    /\ hpc = "start"
    /\ max_tokens' = itinerary_max_tokens(n_days)
    /\ hpc' = "call"
    /\ UNCHANGED <<n_days, reply, response, json_str, parsed, ran, errorLog>>
    /\ UNCHANGED <<pvars, avars>>

\* generate_response: the one chat completion
generate_response ==
    /\ hpc = "call"
    /\ response' = ResponseOf(reply)
    /\ errorLog' = IF reply.kind = "raises"
                   THEN errorLog \cup {"Error generating response"}
                   ELSE errorLog
    /\ hpc' = "response"
    /\ UNCHANGED <<n_days, max_tokens, reply, json_str, parsed, ran>>
    /\ UNCHANGED <<pvars, avars>>

\* `if response:` and the extraction of json_str, or the return of None
extract ==
    /\ hpc = "response"
    /\ IF Falsy(response)
       THEN /\ errorLog' = errorLog \cup {"No response received from LLM"}
            /\ parsed' = PyNone
            /\ hpc' = "returned"
            /\ UNCHANGED <<json_str, ran>>
       ELSE /\ json_str' = extract_json_str(response)
            /\ ran' = ran \cup {"extract"}
            /\ hpc' = "parse"
            /\ UNCHANGED <<errorLog, parsed>>
    /\ UNCHANGED <<n_days, max_tokens, reply, response>>
    /\ UNCHANGED <<pvars, avars>>

\* the first json.loads: its value is returned at once
parse_as_is ==
    /\ hpc = "parse"
    /\ ran' = ran \cup {"parse"}
    /\ LET r == loads(json_str) IN
        IF NeedsRepair(r)
        THEN /\ hpc' = "repair"
             /\ UNCHANGED parsed
        ELSE /\ parsed' = r.val
             /\ hpc' = "returned"
    /\ UNCHANGED <<n_days, max_tokens, reply, response, json_str, errorLog>>
    /\ UNCHANGED <<pvars, avars>>

\* the repairs and the second json.loads; when it raises too, the error is
\* logged and shown and None is returned
repair_and_parse ==
    /\ hpc = "repair"
    /\ ran' = ran \cup {"repair"}
    /\ LET fixed == repair(json_str)
           r == loads(fixed) IN
        /\ json_str' = fixed
        /\ IF r.ok
           THEN /\ parsed' = r.val
                /\ UNCHANGED errorLog
           ELSE /\ parsed' = ParseFailureValue(response)
                /\ errorLog' = errorLog \cup {"Failed to parse JSON response"}
    /\ hpc' = "returned"
    /\ UNCHANGED <<n_days, max_tokens, reply, response>>
    /\ UNCHANGED <<pvars, avars>>

NextLLM ==
    \/ llm_generate_itinerary
    \/ generate_response
    \/ extract
    \/ parse_as_is
    \/ repair_and_parse

\* ------------------------------------------------ the provider's replies
Quoted(chars) == <<"\"">> \o chars \o <<"\"">>

\* 1, "a", ",}", a string holding a fence, null
Scalars == { <<"1">>, Quoted(<<"a">>), Quoted(<<",", "}">>), Quoted(Fence), Null }

\* sep.join(items)
RECURSIVE Join(_, _)
Join(items, sep) ==
    IF Len(items) = 0 THEN <<>>
    ELSE IF Len(items) = 1 THEN items[1]
    ELSE items[1] \o sep \o Join(Tail(items), sep)

\* the key of the i-th member: "a", then "b"
KeyOf(i) == IF i = 1 THEN <<"a">> ELSE <<"b">>

\* nothing, a trailing comma, a trailing comma and a newline
Tails == { <<>>, <<",">>, <<",", "\n">> }

ObjectText(values, tail) ==
    <<"{">>
    \o Join([ i \in 1..Len(values) |-> Quoted(KeyOf(i)) \o <<":">> \o values[i] ], <<",">>)
    \o tail \o <<"}">>

ArrayText(values, tail) == <<"[">> \o Join(values, <<",">>) \o tail \o <<"]">>

\* {"a":1} and [1], each also with a trailing comma
Inner ==
    { ObjectText(<<<<"1">>>>, t) : t \in { <<>>, <<",">> } }
    \cup { ArrayText(<<<<"1">>>>, t) : t \in { <<>>, <<",">> } }

\* the sequences over S of at most n values
TuplesUpTo(S, n) == UNION { [ 1..k -> S ] : k \in 0..n }

Docs ==
    Scalars
    \cup { ObjectText(v, t) : v \in TuplesUpTo(Scalars \cup Inner, MaxItems), t \in Tails }
    \cup { ArrayText(v, t) : v \in TuplesUpTo(Scalars \cup Inner, MaxItems), t \in Tails }

Wraps == { "bare", "padded", "prose", "listed", "tagged", "tagged_prose", "untagged",
           "unclosed", "truncated", "after_untagged" }

\* a document as the provider writes it: alone, among whitespace or prose
\* (words, or brackets and commas), in a fenced block, cut short
Wrap(w, d) ==
    LET tagged == JsonFence \o <<"\n">> \o d \o <<"\n">> \o Fence IN
    CASE w = "bare" -> d
      [] w = "padded" -> <<" ">> \o d \o <<"\n">>
      [] w = "prose" -> <<"s", "o", " ">> \o d \o <<" ", "o", "n">>
      [] w = "listed" -> <<"[", "1", ",", "]", " ">> \o d \o <<",", " ", "]">>
      [] w = "tagged" -> tagged
      [] w = "tagged_prose" -> <<"s", "o", "\n">> \o tagged \o <<"\n", "o", "n">>
      [] w = "untagged" -> Fence \o <<"\n">> \o d \o <<"\n">> \o Fence
      [] w = "unclosed" -> JsonFence \o <<"\n">> \o d
      [] w = "truncated" -> SubSeq(d, 1, Len(d) - 1)
      [] w = "after_untagged" ->
            Fence \o <<"\n", "s", "\n">> \o Fence \o <<"\n">> \o tagged

\* the call raises; there is no client; the content is None, empty, a text
Replies ==
    { [ kind |-> "raises", text |-> NoneText ],
      [ kind |-> "no_client", text |-> NoneText ],
      [ kind |-> "content", text |-> NoneText ],
      [ kind |-> "content", text |-> <<>> ] }
    \cup { [ kind |-> "content", text |-> Wrap(w, d) ] : w \in Wraps, d \in Docs }

\* no flow is under way
NoFlows ==
    /\ trips = {}
    /\ nextId = 1
    /\ lastrowid = None
    /\ errorLog = {}
    /\ pc = [s \in Sessions |-> "idle"]
    /\ args = [s \in Sessions |-> NoArgs]
    /\ user_id = [s \in Sessions |-> None]
    /\ dup = [s \in Sessions |-> "unchecked"]
    /\ llm = [s \in Sessions |-> "uncalled"]
    /\ trip_id = [s \in Sessions |-> None]
    /\ result = [s \in Sessions |-> Pending]
    /\ count = [s \in Sessions |-> NoCalls]
    /\ prompt_days = [s \in Sessions |-> 0]

\* LLMHandler.generate_itinerary was called for a one-day trip
InitLLM ==
    /\ NoFlows
    /\ n_days = 1
    /\ max_tokens = 0
    /\ reply \in Replies
    /\ response = NoneText
    /\ json_str = NoneText
    /\ parsed = PyNone
    /\ ran = {}
    /\ hpc = "start"
    /\ AgentsIdle

\* one call of the handler, for every reply of the provider
SpecLLM == InitLLM /\ [][NextLLM]_vars

\* the replies for which the token budget is exercised
TokenReplies ==
    { [ kind |-> "raises", text |-> NoneText ],
      [ kind |-> "content", text |-> ObjectText(<<<<"1">>>>, <<>>) ],
      [ kind |-> "content", text |-> ObjectText(<<<<"1">>>>, <<",">>) ] }

DayCounts == 1..MaxNumDays

InitTokens ==
    /\ NoFlows
    /\ n_days \in DayCounts
    /\ max_tokens = 0
    /\ reply \in TokenReplies
    /\ response = NoneText
    /\ json_str = NoneText
    /\ parsed = PyNone
    /\ ran = {}
    /\ hpc = "start"
    /\ AgentsIdle

\* one call of the handler, for every trip length
SpecTokens == InitTokens /\ [][NextLLM]_vars

\* =====================================================================
\* The agents: what they make of the parsed value (src/agents)
\* =====================================================================
\* Parsed values are the tagged tuples of the normalizer; in this part a
\* key or a text is written as one string ("meals") and a number as an
\* integer, since nothing here looks inside them.

\* an exception leaving the operation
Raise == <<"raise", <<>>>>

Str(text) == <<"str", text>>
Num(n) == <<"int", n>>
List(seq) == <<"list", seq>>
Dict(pairs) == <<"dict", pairs>>

IsDict(v) == v[1] = "dict"

\* Python's truth test of a parsed value
TruthyValue(v) ==
    CASE v[1] = "dict" -> v[2] # {}
      [] v[1] = "list" -> Len(v[2]) > 0
      [] v[1] = "str" -> v[2] # ""
      [] v[1] = "int" -> v[2] # 0
      [] OTHER -> FALSE

HasKey(d, key) == \E p \in d[2] : p[1] = key

\* d.get(key, default) of a mapping
Get(d, key, default) ==
    IF HasKey(d, key) THEN (CHOOSE p \in d[2] : p[1] = key)[2] ELSE default

\* d[key] = value
SetItem(d, key, value) == Dict({ p \in d[2] : p[1] # key } \cup { <<key, value>> })

\* a for loop over a number or over None is a TypeError, and so is len()
Iterable(v) == v[1] \in {"list", "str", "dict"}

\* what a for loop walks: the items of a list, the characters of a string
\* and the keys of a mapping (strings both; which ones does not matter to
\* a body that calls .get on them)
Items(v) ==
    CASE v[1] = "list" -> v[2]
      [] v[1] = "str" -> IF v[2] = "" THEN <<>> ELSE <<Str("c")>>
      [] OTHER -> IF v[2] = {} THEN <<>> ELSE <<Str("k")>>

\* get_google_maps_link(location=f"{name}, {city}, {country}")
get_google_maps_link(name, city, country) == <<"link", name, city, country>>

\* mutant: the link replaces what the item said
add_link_Replace(item, key, city, country) ==
    IF ~ IsDict(item) THEN Raise
    ELSE IF TruthyValue(Get(item, key, Str("")))
         THEN Dict({ <<"maps_link", get_google_maps_link(Get(item, key, Str("")), city, country)>> })
         ELSE item

\* the body of the loops over activities and meals: item.get(key, ''),
\* which raises on anything but a mapping, and the link for a truthy name
add_link(item, key, city, country) ==
    IF ~ IsDict(item) THEN Raise
    ELSE IF TruthyValue(Get(item, key, Str("")))
         THEN SetItem(item, "maps_link",
                      get_google_maps_link(Get(item, key, Str("")), city, country))
         ELSE item

\* one of the two loops of a day: the list that replaces day[list_key]
add_links(day, list_key, key, city, country) ==
    LET items == Items(Get(day, list_key, List(<<>>)))
    IN  IF ~ Iterable(Get(day, list_key, List(<<>>))) THEN Raise
        ELSE LET updated == [ i \in 1..Len(items) |-> add_link(items[i], key, city, country) ]
             IN  IF \E i \in 1..Len(updated) : updated[i] = Raise
                 THEN Raise
                 ELSE List(updated)

\* the body of the loop over the days
add_map_links_to_day(day, city, country) ==
    IF ~ IsDict(day) THEN Raise
    ELSE LET updated_activities == add_links(day, "activities", "location", city, country)
         IN  IF updated_activities = Raise THEN Raise
             ELSE LET day1 == SetItem(day, "activities", updated_activities)
                      updated_meals == add_links(day1, "meals", "restaurant", city, country)
                  IN  IF updated_meals = Raise THEN Raise
                      ELSE SetItem(day1, "meals", updated_meals)

\* _add_map_links_to_itinerary
add_map_links_to_itinerary(daily_itinerary, city, country) ==
    LET days == Items(daily_itinerary)
    IN  IF ~ Iterable(daily_itinerary) THEN Raise
        ELSE LET updated_itinerary ==
                   [ i \in 1..Len(days) |-> add_map_links_to_day(days[i], city, country) ]
             IN  IF \E i \in 1..Len(updated_itinerary) : updated_itinerary[i] = Raise
                 THEN Raise
                 ELSE List(updated_itinerary)

\* date.isoformat(), the dates being the days of one month
isoformat(d) == Str("2026-01-0" \o ToString(d))

\* generate_itinerary from the answer of llm.generate_itinerary on, for a
\* request that is not to be saved (no user_id, or a duplicate)
itinerary_result(itinerary_data, a) ==
    IF ~ TruthyValue(itinerary_data) THEN PyNone
    ELSE IF ~ IsDict(itinerary_data) THEN Raise
    ELSE IF ~ Iterable(Get(itinerary_data, "daily_itinerary", List(<<>>))) THEN Raise
    ELSE LET linked == add_map_links_to_itinerary(
                         Get(itinerary_data, "daily_itinerary", List(<<>>)), a.city, a.country)
         IN  IF linked = Raise THEN Raise
             ELSE SetItem(SetItem(SetItem(SetItem(SetItem(SetItem(itinerary_data,
                    "daily_itinerary", linked),
                    "trip_id", PyNone),
                    "destination", Str(a.city \o ", " \o a.country)),
                    "start_date", isoformat(a.start_date)),
                    "end_date", isoformat(a.end_date)),
                    "num_days", Num(calculate_days_between(a.start_date, a.end_date)))

\* generate_itinerary without user_id: no duplicate check and no insert; the
\* provider's parsed answer is itinerary_data
agent_generate_itinerary(itinerary_data, a) ==
    /\ call' = [ op |-> "generate_itinerary", itinerary_data |-> itinerary_data, args |-> a ]
    /\ ret' = itinerary_result(itinerary_data, a)
    /\ errorLog' =
         CASE ret' = PyNone -> errorLog \cup {"LLM returned None for itinerary"}
           [] ret' = Raise -> errorLog \cup {"Error in generate_itinerary"}
           [] OTHER -> errorLog
    /\ UNCHANGED <<pvars, hvars, destinations_cache, listings, provider_calls, generated>>

\* ---- the parsed itineraries the specification draws from ----

\* what a day can carry under "activities": a list of activities with and
\* without a location, or a value that is no list of mappings
ActivityLists ==
    { List(q) : q \in TuplesUpTo({ Dict({ <<"location", Str("Fort")>>, <<"activity", Str("Walk")>> }),
                                   Dict({ <<"activity", Str("Rest")>> }) }, MaxItems) }
    \cup { PyNone, List(<<Str("Fort")>>) }

\* what it can carry under "meals"
MealLists ==
    LET named == Dict({ <<"restaurant", Str("Cafe")>>, <<"maps_link", Str("old")>> })
        unnamed == Dict({ <<"restaurant", Str("")>>, <<"meal", Str("Lunch")>> })
    IN  { List(<<>>), PyNone, List(<<named>>), List(<<unnamed>>),
          List(<<named, unnamed>>), List(<<unnamed, named>>) }

\* the days: a day without meals, with or without activities; a day with
\* meals, without activities or with one activity at a location; an empty
\* day; a day that is a text
DayValues ==
    { Dict({ <<"day", Num(1)>> } \cup acts) :
        acts \in { { <<"activities", l>> } : l \in ActivityLists } \cup { {} } }
    \cup { Dict({ <<"day", Num(1)>>, <<"meals", l>> } \cup acts) :
              l \in MealLists,
              acts \in { {}, { <<"activities", List(<<Dict({ <<"location", Str("Fort")>> })>>)>> } } }
    \cup { Dict({}), Str("Day 1") }

\* the values under "daily_itinerary"
DailyItineraries ==
    { List(q) : q \in TuplesUpTo(DayValues, MaxItems) }
    \cup { PyNone, Str(""), Str("none"), Num(2), Dict({}) }

\* the parsed values llm.generate_itinerary can hand to the agent
ItineraryValues ==
    { Dict({ <<"summary", Str("Trip")>>, <<"daily_itinerary", d>> }) : d \in DailyItineraries }
    \cup { Dict({ <<"summary", Str("Trip")>>, <<"num_days", Num(9)>> }),
           Dict({}), List(<<>>), List(<<Dict({})>>), Str("text"), Num(0), Num(7), PyNone }

ItineraryArgs ==
    { [ city |-> "Pune", country |-> "India", start_date |-> 1, end_date |-> e ] : e \in Days }

\* one call in a behaviour: the operation keeps nothing between calls
NextItinerary ==
    /\ call.op = "none"
    /\ \E itinerary_data \in ItineraryValues : \E a \in ItineraryArgs :
           agent_generate_itinerary(itinerary_data, a)

SpecItinerary == Init /\ [][NextItinerary]_vars

\* ---- find_hotels and find_restaurants (hotel_agent.py, food_agent.py) ----

\* the two agents: the table they fill and the key they read
Finders == { [ op |-> "find_hotels", key |-> "hotels" ],
             [ op |-> "find_restaurants", key |-> "restaurants" ] }

\* what maps.geocode found: the coordinates, or None
Coordinates == [ latitude |-> Num(18), longitude |-> Num(73) ]

\* key in data: a key of a mapping, an item of a list, a part of a string
\* (the strings drawn either are the key or do not hold it)
In(key, data) ==
    CASE data[1] = "dict" -> HasKey(data, key)
      [] data[1] = "list" -> \E i \in 1..Len(data[2]) : data[2][i] = Str(key)
      [] OTHER -> data[2] = key

\* the body of the loop of _add_location_data; the link for coordinates is
\* get_google_maps_link(lat=..., lon=...)
add_location(item, found, city, country) ==
    IF ~ IsDict(item) THEN Raise
    ELSE IF found
         THEN SetItem(SetItem(SetItem(item,
                "latitude", Coordinates.latitude),
                "longitude", Coordinates.longitude),
                "maps_link", <<"link", Coordinates.latitude, Coordinates.longitude>>)
         ELSE SetItem(SetItem(SetItem(item,
                "latitude", PyNone),
                "longitude", PyNone),
                "maps_link", get_google_maps_link(Get(item, "name", Str("")), city, country))

\* _add_location_data; geo[i] says whether geocode finds the i-th item
add_location_data(items, geo, city, country) ==
    IF ~ Iterable(items) THEN Raise
    ELSE LET updated == [ i \in 1..Len(Items(items)) |->
                            add_location(Items(items)[i], geo[i], city, country) ]
         IN  IF \E i \in 1..Len(updated) : updated[i] = Raise
             THEN Raise
             ELSE List(updated)

\* what find_hotels hands back for the answer data of generate_json_response:
\* [] for a falsy answer and for one without the key; `in` raises on a
\* number, data[key] on a list or a string
find_result(key, data, geo, city, country) ==
    IF ~ TruthyValue(data) THEN List(<<>>)
    ELSE IF data[1] = "int" THEN Raise
    ELSE IF ~ In(key, data) THEN List(<<>>)
    ELSE IF ~ IsDict(data) THEN Raise
    ELSE add_location_data(Get(data, key, PyNone), geo, city, country)

\* the rows after _save_hotels_to_db walked items from the i-th on: a row
\* per item whose name, city and country are not stored yet; a query that
\* raises (the failing-th one) or an item without a name ends the loop
RECURSIVE saved_rows(_, _, _, _, _, _, _)
saved_rows(rows, table, items, i, failing, city, country) ==
    IF i > Len(items) \/ failing = i THEN rows
    ELSE IF ~ HasKey(items[i], "name") THEN rows
    ELSE IF \E row \in rows : /\ row.table = table
                               /\ row.name = Get(items[i], "name", PyNone)
                               /\ row.city = city /\ row.country = country
         THEN saved_rows(rows, table, items, i + 1, failing, city, country)
         ELSE saved_rows(rows \cup { [ table |-> table, name |-> Get(items[i], "name", PyNone),
                                       city |-> city, country |-> country,
                                       maps_link |-> Get(items[i], "maps_link", PyNone) ] },
                         table, items, i + 1, failing, city, country)

\* the save loop ended in its except clause
save_raised(items, failing) ==
    \E i \in 1..Len(items) :
        /\ failing = i \/ ~ HasKey(items[i], "name")
        /\ \A j \in 1..(i - 1) : failing # j /\ HasKey(items[j], "name")

\* find_hotels / find_restaurants: failure tells why generate_json_response
\* gave None ("none": it gave data)
find_listings(finder, failure, data, geo, failing, place) ==
    LET answer == IF failure = "none" THEN data ELSE PyNone
        found == find_result(finder.key, answer, geo, place[1], place[2])
    IN  /\ call' = [ op |-> finder.op, failure |-> failure, data |-> answer ]
        /\ ret' = found
        /\ listings' = IF found[1] = "list"
                       THEN saved_rows(listings, finder.key, found[2], 1, failing,
                                       place[1], place[2])
                       ELSE listings
        /\ errorLog' = errorLog
             \cup (IF ~ TruthyValue(answer) \/ (answer[1] # "int" /\ ~ In(finder.key, answer))
                   THEN {"Failed to get " \o finder.key \o " from LLM"} ELSE {})
             \cup (IF found[1] = "list" /\ save_raised(found[2], failing)
                   THEN {"Error saving " \o finder.key \o " to database"} ELSE {})
        /\ UNCHANGED <<pvars, hvars, destinations_cache, provider_calls, generated>>

\* ---- the answers the specifications draw from ----

ListingAnswers(key) ==
    { Dict({ <<key, List(q)>> }) :
        q \in TuplesUpTo({ Dict({ <<"name", Str("Inn")>>, <<"location", Str("Center")>> }),
                           Dict({ <<"name", Str("Lodge")>> }),
                           Dict({ <<"rating", Num(4)>> }) }, MaxItems) }
    \cup { Dict({ <<key, PyNone>> }), Dict({ <<key, List(<<Str("Inn")>>)>> }),
           Dict({ <<"results", List(<<>>)>> }), Dict({}),
           List(<<>>), List(<<Str(key)>>), Str(key), Str("sorry"), Num(0), Num(5) }

\* ---- get_destination_info (destination_agent.py) ----

MaxProviderCalls == 2

\* json.dumps of a value that json.loads gave (lists, mappings, strings,
\* numbers, None), and json.loads of such a text: the text says the value
dumps(v) == <<"json", v>>
loads_json(text) == text[2]

\* get_city_images of the image service, which serves some of the four
\* images asked for, filled up from _get_city_images
city_images(served, city) ==
    List([ i \in 1..4 |-> IF i <= served
                          THEN Str("served " \o city \o " " \o ToString(i))
                          ELSE Str("unsplash " \o city \o " " \o ToString(i - served - 1)) ])

\* complete_info before the coordinates of the places are added
complete_info(dest_info, found, served, city, country) ==
    Dict({ <<"city", Str(city)>>,
           <<"country", Str(country)>>,
           <<"description", Get(dest_info, "description", Str(""))>>,
           <<"popular_places", Get(dest_info, "popular_places", List(<<>>))>>,
           <<"culture", Get(dest_info, "culture", Str(""))>>,
           <<"local_language", Get(dest_info, "local_language", Str(""))>>,
           <<"famous_foods", Get(dest_info, "famous_foods", List(<<>>))>>,
           <<"best_time_to_visit", Get(dest_info, "best_time_to_visit", Str(""))>>,
           <<"local_tips", Get(dest_info, "local_tips", Str(""))>>,
           <<"images", city_images(served, city)>>,
           <<"coordinates",
             Dict({ <<"latitude", IF found THEN Coordinates.latitude ELSE PyNone>>,
                    <<"longitude", IF found THEN Coordinates.longitude ELSE PyNone>> })>> })

\* the row _save_to_cache writes
cache_row(info) ==
    [ city |-> Get(info, "city", PyNone)[2],
      country |-> Get(info, "country", PyNone)[2],
      description |-> Get(info, "description", PyNone),
      popular_places |-> dumps(Get(info, "popular_places", PyNone)),
      culture_info |-> Get(info, "culture", PyNone),
      local_language |-> Get(info, "local_language", PyNone),
      famous_foods |-> dumps(Get(info, "famous_foods", PyNone)),
      images_json |-> dumps(Get(info, "images", PyNone)) ]

\* INSERT ... ON DUPLICATE KEY UPDATE: the row of this city and country is
\* the one written last, which is the one the SELECT of _get_from_cache
\* takes (ORDER BY updated_at DESC LIMIT 1)
save_to_cache(rows, info) ==
    { row \in rows : ~ (row.city = cache_row(info).city /\ row.country = cache_row(info).country) }
    \cup { cache_row(info) }

\* the mapping _get_from_cache builds from a row
info_of_row(row) ==
    Dict({ <<"city", Str(row.city)>>,
           <<"country", Str(row.country)>>,
           <<"description", row.description>>,
           <<"popular_places", loads_json(row.popular_places)>>,
           <<"culture", row.culture_info>>,
           <<"local_language", row.local_language>>,
           <<"famous_foods", loads_json(row.famous_foods)>>,
           <<"images", loads_json(row.images_json)>>,
           <<"best_time_to_visit", Str("")>>,
           <<"local_tips", Str("")>>,
           <<"coordinates", Dict({ <<"latitude", PyNone>>, <<"longitude", PyNone>> })>> })

\* _get_from_cache: None when the query raises or finds no row
get_from_cache(rows, city, country, readError) ==
    IF readError \/ ~ \E row \in rows : row.city = city /\ row.country = country
    THEN PyNone
    ELSE info_of_row(CHOOSE row \in rows : row.city = city /\ row.country = country)

\* what the generating part of get_destination_info returns
destination_result(answer, found, geo, served, city, country) ==
    IF ~ TruthyValue(answer) THEN PyNone
    ELSE IF ~ IsDict(answer) THEN Raise
    ELSE LET info == complete_info(answer, found, served, city, country)
             places == add_location_data(Get(info, "popular_places", PyNone), geo, city, country)
         IN  IF places = Raise THEN Raise ELSE SetItem(info, "popular_places", places)

\* get_destination_info(city, country, use_cache); failure tells why
\* generate_destination_info gave None ("none": it gave dest_info)
get_destination_info(place, use_cache, failure, dest_info, found, geo, served, readError, writeError) ==
    LET city == place[1]
        country == place[2]
        cached_info == IF use_cache
                       THEN get_from_cache(destinations_cache, city, country, readError)
                       ELSE PyNone
        answer == IF failure = "none" THEN dest_info ELSE PyNone
        info == destination_result(answer, found, geo, served, city, country)
        was_cached == \E row \in destinations_cache : row.city = city /\ row.country = country
    IN  /\ IF cached_info # PyNone
           THEN /\ call' = [ op |-> "get_destination_info", place |-> place,
                             use_cache |-> use_cache, failure |-> "none",
                             read_error |-> FALSE, provider_called |-> FALSE,
                             first |-> generated[place] ]
                /\ ret' = cached_info
                /\ UNCHANGED <<destinations_cache, provider_calls, generated, errorLog>>
           ELSE /\ provider_calls < MaxProviderCalls
                /\ provider_calls' = provider_calls + 1
                /\ call' = [ op |-> "get_destination_info", place |-> place,
                             use_cache |-> use_cache, failure |-> failure,
                             read_error |-> (use_cache /\ readError), provider_called |-> TRUE,
                             first |-> IF was_cached THEN generated[place] ELSE PyNone ]
                /\ ret' = info
                /\ IF IsDict(info) /\ ~ writeError
                   THEN /\ destinations_cache' = save_to_cache(destinations_cache, info)
                        /\ generated' = [generated EXCEPT ![place] = info]
                   ELSE UNCHANGED <<destinations_cache, generated>>
                /\ errorLog' = errorLog
                     \cup (IF use_cache /\ readError THEN {"Error getting from cache"} ELSE {})
                     \cup (IF IsDict(info) /\ writeError THEN {"Error saving to cache"} ELSE {})
        /\ UNCHANGED <<pvars, hvars, listings>>

\* ---- the answers the specifications draw from ----

DestInfos ==
    { Dict({ <<"description", Str("Old city")>>,
             <<"popular_places", List(<<Dict({ <<"name", Str("Fort")>> })>>)>>,
             <<"culture", Str("Festivals")>>,
             <<"local_language", Str("Marathi")>>,
             <<"famous_foods", List(<<Str("Misal")>>)>>,
             <<"best_time_to_visit", Str("Winter")>>,
             <<"local_tips", Str("Carry water")>> }),
      Dict({ <<"description", Str("Beaches")>> }),
      Dict({ <<"popular_places", PyNone>> }),
      Dict({}),
      List(<<Str("Fort")>>) }

\* the provider's answers: a failure of either kind, or a parsed value
Answers(values) ==
    { <<f, PyNone>> : f \in {"ProviderError", "ParseError"} } \cup { <<"none", v>> : v \in values }

\* geocode finds every place of the answer, or none
GeoAll == { [ i \in 1..MaxItems |-> b ] : b \in BOOLEAN }

\* one operation of one agent, called once; the image service serves two
\* of the four images; generate_itinerary is given an itinerary of one day,
\* an empty list or an empty object
NextAgents ==
    /\ call.op = "none"
    /\ \/ \E finder \in Finders : \E answer \in Answers(ListingAnswers(finder.key)) :
            \E geo \in [ 1..MaxItems -> BOOLEAN ] : \E failing \in 0..MaxItems :
              \E place \in Places :
                 find_listings(finder, answer[1], answer[2], geo, failing, place)
       \/ \E place \in Places : \E use_cache \in BOOLEAN : \E answer \in Answers(DestInfos) :
            \E found \in BOOLEAN : \E geo \in GeoAll :
              \E readError \in BOOLEAN : \E writeError \in BOOLEAN :
                 get_destination_info(place, use_cache, answer[1], answer[2], found, geo, 2,
                                      readError, writeError)
       \/ \E answer \in Answers({ Dict({ <<"daily_itinerary", List(<<Dict({})>>)>> }),
                                  List(<<>>), Dict({}) }) :
            \E a \in ItineraryArgs : agent_generate_itinerary(answer[2], a)

SpecAgents == Init /\ [][NextAgents]_vars

\* get_destination_info called again and again, the image service serving
\* two of the four images
NextCache ==
    \E place \in Places : \E use_cache \in BOOLEAN : \E answer \in Answers(DestInfos) :
      \E found \in BOOLEAN : \E geo \in GeoAll :
        \E readError \in BOOLEAN : \E writeError \in BOOLEAN :
           get_destination_info(place, use_cache, answer[1], answer[2], found, geo, 2,
                                readError, writeError)

SpecCache == Init /\ [][NextCache]_vars

\* ---- delete_trip (database/queries.py) ----

\* what delete_trip returns: True or False
Bool(b) == <<"bool", b>>

\* mutant: the security check looks for the trip only
delete_refused_Missing(found, uid) == found = {}

\* not result or result[0]['user_id'] != user_id, for the rows found by
\* SELECT user_id FROM trips WHERE trip_id = %s
delete_refused(found, uid) == found = {} \/ \A row \in found : row.user_id # uid

\* DELETE FROM trips WHERE trip_id = %s AND user_id = %s
rows_after_delete(rows, tid, uid) ==
    { row \in rows : ~ (row.trip_id = tid /\ row.user_id = uid) }

\* delete_trip up to the security check: the SELECT, or the exception
delete_trip_check(s, tid, uid, dbError) ==
    /\ call.by[s].pc = "idle"
    /\ IF dbError
       THEN /\ errorLog' = errorLog \cup {"Error deleting trip"}
            /\ ret' = [ret EXCEPT ![s] = Bool(FALSE)]
            /\ call' = [call EXCEPT !.by[s] = [ pc |-> "done", trip_id |-> tid, user_id |-> uid ]]
       ELSE /\ IF delete_refused({ row \in trips : row.trip_id = tid }, uid)
               THEN /\ ret' = [ret EXCEPT ![s] = Bool(FALSE)]
                    /\ call' = [call EXCEPT !.by[s] =
                                  [ pc |-> "done", trip_id |-> tid, user_id |-> uid ]]
               ELSE /\ ret' = ret
                    /\ call' = [call EXCEPT !.by[s] =
                                  [ pc |-> "delete", trip_id |-> tid, user_id |-> uid ]]
            /\ UNCHANGED errorLog
    /\ UNCHANGED <<pvars, hvars, destinations_cache, listings, provider_calls, generated>>

\* the DELETE of delete_trip and its commit, or the exception
delete_trip_delete(s, dbError) ==
    /\ call.by[s].pc = "delete"
    /\ IF dbError
       THEN /\ errorLog' = errorLog \cup {"Error deleting trip"}
            /\ ret' = [ret EXCEPT ![s] = Bool(FALSE)]
            /\ UNCHANGED trips
       ELSE /\ trips' = rows_after_delete(trips, call.by[s].trip_id, call.by[s].user_id)
            /\ ret' = [ret EXCEPT ![s] = Bool(TRUE)]
            /\ UNCHANGED errorLog
    /\ call' = [call EXCEPT !.by[s].pc = "done"]
    /\ UNCHANGED <<nextId, lastrowid, pc, args, user_id, dup, llm, trip_id, result,
                   count, prompt_days>>
    /\ UNCHANGED <<hvars, destinations_cache, listings, provider_calls, generated>>

\* ---- the tables and the requests the specification draws from ----

Owners == {1, 2}

\* the table holds trips with ids among 1..MaxTrips, each saved by one of
\* the owners; no request has called delete_trip yet
InitDelete ==
    /\ \E ids \in SUBSET (1..MaxTrips) : \E owner \in [ 1..MaxTrips -> Owners ] :
         trips = { NewRow(i, owner[i], FormArgs(ValidForm(owner[i], 1000)), "stored") : i \in ids }
    /\ nextId = MaxTrips + 1
    /\ lastrowid = None
    /\ errorLog = {}
    /\ args = [s \in Sessions |-> NoArgs]
    /\ user_id = [s \in Sessions |-> None]
    /\ pc = [s \in Sessions |-> "idle"]
    /\ dup = [s \in Sessions |-> "unchecked"]
    /\ llm = [s \in Sessions |-> "uncalled"]
    /\ trip_id = [s \in Sessions |-> None]
    /\ result = [s \in Sessions |-> Pending]
    /\ count = [s \in Sessions |-> NoCalls]
    /\ prompt_days = [s \in Sessions |-> 0]
    /\ HandlerIdle
    /\ call = [ op |-> "delete_trip", by |-> [s \in Sessions |-> [ pc |-> "idle", trip_id |-> None, user_id |-> None ]] ]
    /\ ret = [s \in Sessions |-> PyNone]
    /\ destinations_cache = {}
    /\ listings = {}
    /\ provider_calls = 0
    /\ generated = [ place \in Places |-> PyNone ]

\* each session calls delete_trip once, for a trip that may not exist
NextDelete ==
    \E s \in Sessions : \E dbError \in BOOLEAN :
        \/ \E tid \in 1..(MaxTrips + 1) : \E uid \in Owners :
              delete_trip_check(s, tid, uid, dbError)
        \/ delete_trip_delete(s, dbError)

SpecDelete == InitDelete /\ [][NextDelete]_vars

\* ---- the messages of render for the result (pages/plan_trip.py) ----

\* the page tells a logged-in user that the trip was not saved as it is
\* similar to an existing trip: a truthy result without a truthy trip_id
similar_trip_notice(s) ==
    /\ pc[s] = "done"
    /\ result[s].kind = "itinerary"
    /\ result[s].trip_id = None
    /\ args[s].user_id # None

\* =====================================================================
\* The claims
\* =====================================================================

\* the duplicate lookup of some flow raised and was answered with False
LookupRaised == "Error checking duplicate trip" \in errorLog

Checked(s) == dup[s] # "unchecked"

\* a stored state and a candidate state agree: equal, or both absent
SameState(stored, cand) ==
    IF cand \in {NULL, ""} THEN stored \in {NULL, ""} ELSE stored = cand

\* row is a trip of the candidate's party with the candidate's identity and
\* a budget b with cand.budget*0.9 <= b <= cand.budget*1.1
MatchesCandidate(row, cand) ==
    /\ row.user_id = cand.user_id
    /\ row.destination_city = cand.city
    /\ row.destination_country = cand.country
    /\ SameState(row.destination_state, cand.state)
    /\ (row.end_date - row.start_date) + 1 = (cand.end_date - cand.start_date) + 1
    /\ row.num_people = cand.num_people
    /\ 9 * cand.budget <= 10 * row.budget
    /\ 10 * row.budget <= 11 * cand.budget

\* C1, as stated: _check_duplicate_trip returns true exactly when some
\* persisted trip of the same user matches the candidate in city, country,
\* state (or absence of state), day count and num_people and has a budget
\* within [0.9, 1.1] times the candidate's.
\* Violated: when the query raises, the answer is False whatever is stored.
C1_Original ==
    \A s \in Sessions :
        Checked(s) => ((dup[s] = "True") <=> (\E row \in trips : MatchesCandidate(row, args[s])))

\* C1, amended: _check_duplicate_trip returns true exactly when the lookup
\* query executed without raising and some persisted trip of the same user
\* matches the candidate as above; when the query raises it returns false.
C1_Amended ==
    \A s \in Sessions :
        Checked(s) =>
            ((dup[s] = "True") <=>
                (~LookupRaised /\ \E row \in trips : MatchesCandidate(row, args[s])))

\* C1, its case: a match found among two stored rows, one of them a trip of
\* another user
C1_Witness ==
    /\ dup["s1"] = "True"
    /\ Cardinality(trips) = 2
    /\ \E row \in trips : row.user_id # args["s1"].user_id

\* exactly one trip is stored, its budget is 1000, and the candidate equals
\* it in every other identity attribute
OneStored1000(s) ==
    \E row \in trips :
        /\ trips = {row}
        /\ row.budget = 1000
        /\ row.user_id = args[s].user_id
        /\ row.destination_city = args[s].city
        /\ row.destination_country = args[s].country
        /\ SameState(row.destination_state, args[s].state)
        /\ (row.end_date - row.start_date) + 1 = (args[s].end_date - args[s].start_date) + 1
        /\ row.num_people = args[s].num_people

\* C2, as stated (and read with a lookup that executes): against one stored
\* trip of budget 1000 the candidate is a duplicate exactly when its budget
\* c has 900 <= c <= 1100.
\* Violated: c = 900 is not flagged (1000 > 900*1.1), c = 1101 is flagged.
C2_Original ==
    \A s \in Sessions :
        (Checked(s) /\ ~LookupRaised /\ OneStored1000(s)) =>
            ((dup[s] = "True") <=> (900 <= args[s].budget /\ args[s].budget <= 1100))

\* C2, amended: against one stored trip of budget 1000 the candidate with
\* whole budget c is a duplicate exactly when the lookup executes and
\* c*0.9 <= 1000 <= c*1.1, that is 910 <= c <= 1111: 1099, 1100 and 1101
\* are duplicates, 899 and 900 are not.
C2_Amended ==
    \A s \in Sessions :
        (Checked(s) /\ OneStored1000(s)) =>
            /\ (dup[s] = "True") <=>
                   (~LookupRaised /\ 910 <= args[s].budget /\ args[s].budget <= 1111)
            /\ (~LookupRaised /\ args[s].budget \in {1099, 1100, 1101}) => dup[s] = "True"
            /\ args[s].budget \in {899, 900} => dup[s] = "False"

\* C2, its case: the candidate of budget 1101 flagged against the stored 1000
C2_Witness ==
    /\ OneStored1000("s1")
    /\ args["s1"].budget = 1101
    /\ dup["s1"] = "True"

\* the one stored row, read as a candidate
AsCandidate(row) ==
    [ user_id |-> row.user_id, city |-> row.destination_city,
      state |-> row.destination_state, country |-> row.destination_country,
      start_date |-> row.start_date, end_date |-> row.end_date,
      budget |-> row.budget, num_people |-> row.num_people ]

\* the stored row B as candidate is flagged against the candidate A, stored
ReverseFlagged(s, row) ==
    check_duplicate_result({NewRow(1, args[s].user_id, args[s], "stored")},
                           row.user_id, AsCandidate(row), FALSE)

\* one trip B of the candidate's party is stored
OneStoredOfParty(s, row) == trips = {row} /\ row.user_id = args[s].user_id

\* C3, as stated (and read with lookups that execute): A as candidate is
\* flagged against stored B if and only if B as candidate is flagged
\* against stored A.
\* Violated: A = 1000 is flagged against B = 900, B is not flagged against A.
C3_Original ==
    \A s \in Sessions : \A row \in trips :
        (Checked(s) /\ ~LookupRaised /\ OneStoredOfParty(s, row)) =>
            ((dup[s] = "True") <=> ReverseFlagged(s, row))

\* C3, amended: with lookups that execute, the relation is symmetric from
\* the lower budget upwards only: if A's budget is at most B's and A as
\* candidate is flagged against stored B, then B as candidate is flagged
\* against stored A (so it is symmetric for equal budgets); flagged with
\* the higher budget as candidate, the reverse may fail (A 1000, B 900).
C3_Amended ==
    \A s \in Sessions : \A row \in trips :
        (Checked(s) /\ ~LookupRaised /\ OneStoredOfParty(s, row)) =>
            /\ (args[s].budget <= row.budget /\ dup[s] = "True") => ReverseFlagged(s, row)
            /\ (row.budget <= args[s].budget /\ ReverseFlagged(s, row)) => dup[s] = "True"

\* C3, its case: A = 910 flagged against stored B = 1000, and B against A
C3_Witness ==
    \E row \in trips :
        /\ OneStoredOfParty("s1", row)
        /\ args["s1"].budget = 910 /\ row.budget = 1000
        /\ dup["s1"] = "True"
        /\ ReverseFlagged("s1", row)

\* ---------------------------------------------------------------------
Authenticated(s) == args[s].user_id # None

Days_(s) == (args[s].end_date - args[s].start_date) + 1

\* C4, first part: a flow flagged duplicate whose generation succeeded
\* returns the itinerary just generated, with trip_id None
C4_Returned ==
    \A s \in Sessions :
        (pc[s] = "done" /\ dup[s] = "True" /\ llm[s] = "Mapping") =>
            /\ result[s].kind = "itinerary"
            /\ result[s].content = ContentOf(s)
            /\ result[s].trip_id = None

\* C4, second part: no step of a flow flagged duplicate changes the table
C4_NoInsert ==
    [][ \A s \in Sessions : (dup[s] = "True" /\ pc'[s] # pc[s]) => trips' = trips ]_vars

\* C4: whenever the duplicate check signals a duplicate and generation
\* succeeds, the freshly generated itinerary is still returned, no trip row
\* is inserted during that flow, and the result carries trip_id None.
C4_DuplicateReturnedNotSaved == [](C4_Returned) /\ C4_NoInsert

\* C4, its case: a flagged flow has returned its itinerary
C4_Witness ==
    \E s \in Sessions :
        /\ pc[s] = "done" /\ dup[s] = "True" /\ llm[s] = "Mapping"
        /\ result[s].kind = "itinerary"
        /\ trips # {}

\* the result's trip_id names a row of the request's party holding the
\* request
Persisted(s) ==
    /\ result[s].kind = "itinerary"
    /\ result[s].trip_id # None
    /\ \E row \in trips :
        /\ row.trip_id = result[s].trip_id
        /\ row.user_id = args[s].user_id
        /\ row.destination_city = args[s].city
        /\ row.budget = args[s].budget

\* C5, as stated (and read with a lookup that executed): for an
\* authenticated party, whenever the check signals not-duplicate and generation and normalization succeed, one trip row is
\* inserted for that party and the result's trip_id is the non-null
\* identifier of that row.
\* Violated by the code: an INSERT that raises is swallowed by
\* _save_trip_to_db, and the flow returns the itinerary with trip_id None.
C5_Claim ==
    \A s \in Sessions :
        (pc[s] = "done" /\ Authenticated(s) /\ ~LookupRaised
         /\ dup[s] = "False" /\ llm[s] = "Mapping") => Persisted(s)

\* C8: the duplicate check and the insert are not atomic: the INSERT of a
\* flow that was answered not-duplicate adds its row on the strength of
\* that earlier answer, whatever the table holds by then; interleaved, two
\* flows of one party both pass the check and both insert (C8_Witness).
C8_CheckThenInsertNotAtomic ==
    [][ \A s \in Sessions :
          (pc[s] = "save" /\ pc'[s] = "lastid") =>
              /\ dup[s] = "False"
              /\ Cardinality(trips') = Cardinality(trips) + 1 ]_vars

\* C8, its case: both sessions were answered not-duplicate by lookups that
\* executed, both inserted, and the party holds two equivalent trips
C8_Witness ==
    /\ ~LookupRaised
    /\ \A s \in Sessions : pc[s] = "done" /\ dup[s] = "False" /\ result[s].trip_id # None
    /\ \E t1, t2 \in trips :
        /\ t1.trip_id # t2.trip_id
        /\ MatchesCandidate(t1, AsCandidate(t2))
        /\ MatchesCandidate(t2, AsCandidate(t1))

\* C9, as stated: the duplicate check happens only after generation has
\* succeeded and the output was normalized.
\* Violated: the check is the first step, before the provider call.
C9_Original ==
    \A s \in Sessions : Checked(s) => llm[s] = "Mapping"

\* C9, amended: for an authenticated party the duplicate check is the
\* first step of the flow, before the provider call (Requested ->
\* CheckingDuplicate -> Generating): the provider is never called before
\* the check has answered, so a flow whose generation or parsing fails has
\* already performed the duplicate check; an anonymous flow never does.
C9_Amended ==
    \A s \in Sessions :
        /\ (Authenticated(s) /\ llm[s] # "uncalled") => Checked(s)
        /\ pc[s] = "check" => (llm[s] = "uncalled" /\ ~Checked(s))
        /\ ~Authenticated(s) => ~Checked(s)

\* C9, its case: a flow whose generation failed, with the check done
C9_Witness ==
    \E s \in Sessions :
        /\ pc[s] = "done" /\ llm[s] \in {"ProviderError", "ParseError"}
        /\ Checked(s)

\* the terminal states of a flow; an answer that is no usable mapping
\* (falsy, or no mapping at all) is counted with ParseFailed
GenerationFailed(s) == llm[s] = "ProviderError" /\ result[s].kind = "None"
ParseFailed(s) ==
    llm[s] \in {"ParseError", "Falsy", "NonMapping"} /\ result[s].kind \in {"None", "raise"}
Duplicate(s) ==
    dup[s] = "True" /\ result[s].kind = "itinerary" /\ result[s].trip_id = None

TerminalStates(s) ==
    { t \in {"GenerationFailed", "ParseFailed", "Duplicate", "Persisted"} :
        \/ t = "GenerationFailed" /\ GenerationFailed(s)
        \/ t = "ParseFailed" /\ ParseFailed(s)
        \/ t = "Duplicate" /\ Duplicate(s)
        \/ t = "Persisted" /\ Persisted(s) }

\* C10, as stated: every flow of an authenticated party ends in exactly one
\* of GenerationFailed, ParseFailed, Duplicate, Persisted, and a flow found
\* unique with a normalized itinerary ends in Persisted.
\* Violated by the code: the flow whose INSERT raised ends with the
\* itinerary returned, trip_id None and nothing persisted.
C10_Claim ==
    \A s \in Sessions :
        (pc[s] = "done" /\ Authenticated(s)) =>
            /\ Cardinality(TerminalStates(s)) = 1
            /\ (dup[s] = "False" /\ llm[s] = "Mapping") => Persisted(s)

\* ---------------------------------------------------------------------
\* two trips of one party that are the same trip: equal city, country,
\* state (or both absent), day count and num_people, and each budget
\* within 10% of the other
SameTrip(t1, t2) ==
    /\ MatchesCandidate(t1, AsCandidate(t2))
    /\ MatchesCandidate(t2, AsCandidate(t1))

Second1050(s) ==
    /\ args[s].budget = 1050
    /\ \E row \in trips :
        /\ row.budget = 1000
        /\ row.user_id = args[s].user_id
        /\ row.destination_city = args[s].city
        /\ row.destination_country = args[s].country
        /\ SameState(row.destination_state, args[s].state)
        /\ (row.end_date - row.start_date) + 1 = Days_(s)
        /\ row.num_people = args[s].num_people

AtMostOnce(s) == count[s].llm <= 1 /\ count[s].check <= 1 /\ count[s].insert <= 1

\* the INSERT of this invocation was made and raised
InsertFailed(s) == count[s].insert = 1 /\ pc[s] = "done" /\ trip_id[s] = None

\* a stage of the invocation failed: the provider call, the parsing of its
\* response, or the INSERT
StageFailed(s) == llm[s] \in {"ProviderError", "ParseError"} \/ InsertFailed(s)

\* C11, as stated (and read with lookups that execute): one invocation of
\* generate_itinerary issues at most one provider call, runs the duplicate
\* check at most once and performs at most one insert, and a failure at any
\* stage ends the flow with that failure handed to the caller.
\* Violated: an INSERT that raises ends the flow with the itinerary returned
\* as if nothing had failed.
C11_Claim ==
    ~LookupRaised =>
        \A s \in Sessions :
            /\ AtMostOnce(s)
            /\ StageFailed(s) => (pc[s] = "done" /\ result[s].kind \in {"None", "raise"})

\* ---------------------------------------------------------------------
\* generate_json_response (SpecLLM)
\* ---------------------------------------------------------------------

\* generate_json_response has returned
Returned == hpc = "returned"

\* C12, as stated: for every response text that is valid JSON with no
\* wrapping, generate_json_response returns exactly the parse of that text,
\* and the repair steps are not applied.
\* Violated: a valid JSON text with a fence marker inside a string is cut at
\* the marker, and None is returned.
C12_Original ==
    (Returned /\ loads(response).ok) =>
        (parsed = loads(response).val /\ "repair" \notin ran)

\* C12, amended: for every response text that is valid JSON and holds no
\* fence marker (three backticks), generate_json_response returns exactly
\* the parse of that text, and the repair steps are not applied.
C12_Amended ==
    (Returned /\ loads(response).ok /\ ~Contains(response, Fence)) =>
        (parsed = loads(response).val /\ "repair" \notin ran)

\* C12, its case: an object with a member, padded with whitespace, whose
\* string holds a comma before a brace, was returned as parsed
C12_Witness ==
    /\ Returned /\ loads(response).ok /\ ~Contains(response, Fence)
    /\ response[1] = " "
    /\ Contains(response, <<",", "}", "\"">>)
    /\ parsed[1] = "dict" /\ parsed[2] # {}

\* the texts between the first JSON-tagged fence of a text and a fence
\* marker after it
TaggedBlocks(text) ==
    LET i == find(text, JsonFence, 1) IN
    IF i = 0 THEN {}
    ELSE { SubSeq(text, i + Len(JsonFence), j - 1) :
             j \in { k \in (i + Len(JsonFence))..Len(text) : StartsAt(text, Fence, k) } }

\* C13, as stated: for every response text containing a JSON-tagged fenced
\* block holding valid JSON, generate_json_response returns the parse of the
\* content between the first JSON-tagged fence and its closing fence,
\* whatever stands before or after the block.
\* Violated: when the JSON holds a fence marker inside a string, the content
\* is cut at that marker, and None is returned.
C13_Original ==
    Returned =>
        \A block \in TaggedBlocks(response) :
            loads(block).ok => parsed = loads(block).val

\* C13, amended: for every response text in which the content between the
\* first JSON-tagged fence and the next fence marker after it is valid JSON,
\* generate_json_response returns the parse of that content, whatever
\* stands before the first tagged fence or after that marker.
C13_Amended ==
    Returned =>
        \A block \in TaggedBlocks(response) :
            (loads(block).ok /\ ~Contains(block, Fence)) =>
                (parsed = loads(block).val /\ "repair" \notin ran)

\* C13, its case: prose, a tagged block with an array, prose; the array was
\* returned
C13_Witness ==
    /\ Returned /\ Len(response) > 0
    /\ response[1] = "s" /\ response[Len(response)] = "n"
    /\ \E block \in TaggedBlocks(response) : loads(block).ok /\ ~Contains(block, Fence)
    /\ parsed[1] = "list" /\ parsed[2] # <<>>

\* at i stands a comma followed, after whitespace, by a closing brace or
\* bracket
CommaBeforeCloser(text, i) ==
    /\ text[i] = ","
    /\ LET j == SkipWhitespace(text, i + 1) IN j <= Len(text) /\ text[j] \in {"}", "]"}

RemoveAt(text, i) == SubSeq(text, 1, i - 1) \o SubSeq(text, i + 1, Len(text))

\* where a text that is no valid JSON holds a trailing comma without which
\* it is valid JSON
TrailingCommas(text) ==
    IF loads(text).ok THEN {}
    ELSE { i \in 1..Len(text) : CommaBeforeCloser(text, i) /\ loads(RemoveAt(text, i)).ok }

\* the top-level value of the text opens with a brace
TopLevelObject(text) == lstrip(text) # <<>> /\ Head(lstrip(text)) = "{"

\* the commas of the text that the two substitutions remove
RemovedCommas(text) == { i \in 1..Len(text) : CommaBeforeCloser(text, i) }

\* C14, as stated (and read for texts without fence markers and without a
\* comma before a closer inside a string): for every text that is valid JSON
\* except for a single trailing comma before a closing brace or bracket,
\* generate_json_response succeeds through the repair path and returns what
\* parsing the text without that comma gives, whatever the top-level value
\* is (object, or array of objects).
\* Violated: of an array of objects the slicing keeps the text from the
\* first "{" to the last "}", so the inner object or None is returned.
C14_Original ==
    Returned =>
        \A i \in TrailingCommas(response) :
            (RemovedCommas(response) = {i} /\ ~Contains(response, Fence)) =>
                ("repair" \in ran /\ parsed = loads(RemoveAt(response, i)).val)

\* C14, amended: for every text that holds no fence marker, is a JSON
\* object except for a single trailing comma before a closing brace or
\* bracket, and holds no other comma followed by optional whitespace and a
\* closing brace or bracket (as inside a string), generate_json_response
\* succeeds through the repair path and returns what parsing the text
\* without that comma gives.  For a top-level array with an object among its
\* elements the result is never that value.
C14_Amended ==
    Returned =>
        \A i \in TrailingCommas(response) :
            LET expected == loads(RemoveAt(response, i)).val IN
            /\ (TopLevelObject(response) /\ RemovedCommas(response) = {i}
                    /\ ~Contains(response, Fence)) =>
                  ("repair" \in ran /\ parsed = expected)
            /\ (expected[1] = "list" /\ \E k \in 1..Len(expected[2]) : expected[2][k][1] = "dict") =>
                  parsed # expected

\* C14, its case: an object of two members whose nested array ends in a
\* comma was repaired and returned
C14_Witness ==
    /\ Returned /\ "repair" \in ran
    /\ TopLevelObject(response) /\ ~Contains(response, Fence)
    /\ \E i \in TrailingCommas(response) :
          /\ RemovedCommas(response) = {i}
          /\ response[SkipWhitespace(response, i + 1)] = "]"
          /\ parsed = loads(RemoveAt(response, i)).val
    /\ parsed[1] = "dict" /\ Cardinality(parsed[2]) = 2

\* C15: every value generate_json_response returns for a text that is not
\* None is the complete parse of the extracted string or of the repaired,
\* sliced string; when neither parses (as for an object cut short) the
\* result is the failure None, never a partial or guessed structure.
C15_FailureOrCompleteParse ==
    (Returned /\ ~Falsy(response)) =>
        LET extracted == extract_json_str(response)
            repaired == repair(extracted) IN
        /\ parsed # PyNone =>
              \/ loads(extracted).ok /\ parsed = loads(extracted).val
              \/ ~loads(extracted).ok /\ loads(repaired).ok /\ parsed = loads(repaired).val
        /\ (~loads(extracted).ok /\ ~loads(repaired).ok) =>
              (parsed = PyNone /\ ran = {"extract", "parse", "repair"})

\* C15, its case: an object of two members cut short before its closing
\* brace went through both parses and None was returned
C15_Witness ==
    /\ Returned /\ ~Falsy(response)
    /\ Head(response) = "{" /\ response[Len(response)] # "}"
    /\ Contains(response, <<"\"", "b", "\"", ":">>)
    /\ loads(response \o <<"}">>).ok
    /\ ran = {"extract", "parse", "repair"}
    /\ parsed = PyNone

\* both parses of generate_json_response raised
NormalizationFailed ==
    /\ Returned /\ "repair" \in ran
    /\ ~loads(json_str).ok

\* what generate_json_response returns after a provider failure
ProviderFailureValue == PyNone

\* C16, as stated: when normalization fails, the returned value is a parse
\* failure that carries the raw response text, so the caller can tell it
\* from a provider failure by the returned value.
\* Violated: None is returned, as after a provider failure.
C16_Original ==
    NormalizationFailed =>
        (parsed # ProviderFailureValue /\ parsed = <<"ParseError", response>>)

\* C16, amended: when normalization fails, generate_json_response returns
\* None, the value it also returns after a provider failure; the failure is
\* only logged and shown ("Failed to parse JSON response"), and the returned
\* value carries neither the raw text nor its length.
C16_Amended ==
    NormalizationFailed =>
        /\ parsed = PyNone
        /\ parsed = ProviderFailureValue
        /\ "Failed to parse JSON response" \in errorLog

\* C16, its case: a fenced array cut by a fence marker inside a string
\* failed both parses
C16_Witness ==
    /\ NormalizationFailed
    /\ Contains(response, JsonFence)
    /\ parsed = PyNone
    /\ json_str # <<>>

\* C17: when the provider call raises, generate_response returns None (the
\* exception is logged, not passed on), and generate_json_response returns
\* None without running the extraction, a parse or the repairs.
C17_ProviderErrorReturnsNone ==
    (reply.kind = "raises" /\ hpc \notin {"start", "call"}) =>
        /\ response = NoneText
        /\ "Error generating response" \in errorLog
        /\ ran = {}
        /\ json_str = NoneText
        /\ hpc \in {"response", "returned"}
        /\ Returned => (parsed = PyNone /\ "No response received from LLM" \in errorLog)

\* C17, its case: the call raised and generate_json_response has returned
C17_Witness == reply.kind = "raises" /\ Returned /\ parsed = PyNone

\* C18, as stated: every value generate_json_response returns that is not
\* the failure None is a mapping.
\* Violated: a response that parses to an array, a string or a number is
\* returned as parsed.
C18_Claim == Returned => (parsed # PyNone => parsed[1] = "dict")

\* ---------------------------------------------------------------------
\* LLMHandler.generate_itinerary: the token budget (SpecTokens)
\* ---------------------------------------------------------------------

\* C19: the token budget of an itinerary request is
\* min(16000, max(8000, num_days * 600)): 8000 up to 13 days, 600 for a day
\* from 14 to 26 days, 16000 from 27 days on; it lies in [8000, 16000], no
\* shorter trip has a larger budget, and it is 8000 for 1 day, 8000 for 12
\* days and 16000 for 30 days.
C19_TokenBudget ==
    hpc # "start" =>
        /\ n_days <= 13 => max_tokens = 8000
        /\ (14 <= n_days /\ n_days <= 26) => max_tokens = n_days * 600
        /\ 27 <= n_days => max_tokens = 16000
        /\ 8000 <= max_tokens /\ max_tokens <= 16000
        /\ \A fewer \in 1..n_days : itinerary_max_tokens(fewer) <= max_tokens
        /\ n_days = 1 => max_tokens = 8000
        /\ n_days = 12 => max_tokens = 8000
        /\ n_days = 30 => max_tokens = 16000

\* C19, its case: the budget of a 30-day trip was computed and the call has
\* returned
C19_Witness == Returned /\ n_days = 30 /\ max_tokens = 16000

\* ---------------------------------------------------------------------
\* the trip length (SpecSeq)
\* ---------------------------------------------------------------------

\* the row a flow has saved
SavedRows(s) == { row \in trips : trip_id[s] # None /\ row.trip_id = trip_id[s] }

\* C20: the trip length is (end_date - start_date in days) + 1 wherever it
\* is derived: the num_days handed to the provider call for the prompt and
\* its size, the DATEDIFF + 1 by which the duplicate query found a stored
\* trip, the num_days of the result, and the duration shown for the saved
\* trip are all that number; identical dates give exactly 1.
C20_TripLengthEverywhere ==
    \A s \in Sessions :
        pc[s] \notin {"idle", "rejected"} =>
            LET n == (args[s].end_date - args[s].start_date) + 1 IN
            /\ count[s].llm = 1 => prompt_days[s] = n
            /\ dup[s] = "True" =>
                  \E row \in trips :
                      /\ row.user_id = args[s].user_id
                      /\ DATEDIFF(row.end_date, row.start_date) + 1 = n
                      /\ duration(row) = n
            /\ result[s].kind = "itinerary" => result[s].num_days = n
            /\ pc[s] = "done" =>
                  \A row \in SavedRows(s) :
                      /\ duration(row) = result[s].num_days
                      /\ DATEDIFF(row.end_date, row.start_date) + 1 = result[s].num_days
            /\ (args[s].start_date = args[s].end_date /\ result[s].kind = "itinerary") =>
                  result[s].num_days = 1

\* C20, its case: a trip that starts and ends on the same day was saved,
\* and a later request for the same day was found to be its duplicate
C20_Witness ==
    \E s \in Sessions :
        /\ pc[s] = "done" /\ dup[s] = "True"
        /\ args[s].start_date = args[s].end_date
        /\ result[s].kind = "itinerary" /\ result[s].num_days = 1
        /\ prompt_days[s] = 1
        /\ \E row \in trips : row.start_date = row.end_date /\ duration(row) = 1

\* ---------------------------------------------------------------------
\* the page's validation of the dates (SpecDates)
\* ---------------------------------------------------------------------

\* C21: render rejects a request whose end date lies before its start date
\* before it calls generate_itinerary: every invocation has num_days >= 1,
\* and for a rejected request no duplicate check, no provider call and no
\* insert is made and the table stays as it was.
C21_DatesRejectedBeforeBuilder ==
    /\ [](\A s \in Sessions :
            /\ pc[s] \notin {"idle", "rejected"} =>
                  /\ ~(args[s].end_date < args[s].start_date)
                  /\ calculate_days_between(args[s].start_date, args[s].end_date) >= 1
            /\ count[s].llm >= 1 => prompt_days[s] >= 1
            /\ pc[s] = "rejected" =>
                  (count[s] = NoCalls /\ result[s] = Pending /\ args[s] = NoArgs))
    /\ [][ \A s \in Sessions :
             pc'[s] = "rejected" => (trips' = trips /\ nextId' = nextId /\ count'[s] = NoCalls) ]_vars

\* C21, its case: after a saved three-day trip, a request with its end date
\* before its start date was rejected
C21_Witness ==
    /\ pc["s1"] = "rejected"
    /\ count["s1"] = NoCalls
    /\ \E row \in trips : duration(row) = MaxDay

\* ---- C22 ----

IsList(v) == v[1] = "list"

\* a list of mappings
ListOfDicts(v) == IsList(v) /\ \A i \in 1..Len(v[2]) : IsDict(v[2][i])

\* an object whose days, where given, are a list of objects, and whose
\* activities and meals, where given, are lists of objects
WellFormedItinerary(v) ==
    /\ IsDict(v)
    /\ HasKey(v, "daily_itinerary") =>
         /\ ListOfDicts(Get(v, "daily_itinerary", List(<<>>)))
         /\ \A i \in 1..Len(Get(v, "daily_itinerary", List(<<>>))[2]) :
              \A list_key \in {"activities", "meals"} :
                 LET day == Get(v, "daily_itinerary", List(<<>>))[2][i]
                 IN  HasKey(day, list_key) => ListOfDicts(Get(day, list_key, List(<<>>)))

\* the entries of a mapping under other keys than these
Without(d, keys) == { p \in d[2] : p[1] \notin keys }

\* the same items in the same order, each as it was but for its maps_link,
\* which is there if it was there or if the item names a place
SameItems(before, after, key) ==
    /\ Len(after) = Len(before)
    /\ \A i \in 1..Len(before) :
         /\ IsDict(after[i])
         /\ Without(after[i], {"maps_link"}) = Without(before[i], {"maps_link"})
         /\ HasKey(after[i], "maps_link") <=>
              \/ HasKey(before[i], "maps_link")
              \/ TruthyValue(Get(before[i], key, Str("")))

\* the same days in the same order, each with its activities and its meals
SameDays(before, after) ==
    /\ Len(after) = Len(before)
    /\ \A i \in 1..Len(before) :
         /\ IsDict(after[i])
         /\ Without(after[i], {"activities", "meals"})
              = Without(before[i], {"activities", "meals"})
         /\ IsList(Get(after[i], "activities", PyNone))
         /\ IsList(Get(after[i], "meals", PyNone))
         /\ SameItems(Get(before[i], "activities", List(<<>>))[2],
                      Get(after[i], "activities", List(<<>>))[2], "location")
         /\ SameItems(Get(before[i], "meals", List(<<>>))[2],
                      Get(after[i], "meals", List(<<>>))[2], "restaurant")

Metadata == {"trip_id", "destination", "start_date", "end_date", "num_days"}

\* the itinerary came back as a result, with what the model gave
PassedThrough(v, r) ==
    /\ IsDict(r)
    /\ Without(r, Metadata \cup {"daily_itinerary"}) = Without(v, Metadata \cup {"daily_itinerary"})
    /\ IsList(Get(r, "daily_itinerary", PyNone))
    /\ SameDays(Get(v, "daily_itinerary", List(<<>>))[2], Get(r, "daily_itinerary", List(<<>>))[2])

\* C22 as stated: every parsed itinerary object, whatever keys it lacks and
\* however many days it has, is returned by generate_itinerary as a result
\* with its days, activities and meals as the model gave them
C22_Original ==
    (call.op = "generate_itinerary" /\ WellFormedItinerary(call.itinerary_data))
        => PassedThrough(call.itinerary_data, ret)

\* C22 amended: a parsed itinerary object that is not empty is returned with
\* its days, activities and meals in number and order as the model gave
\* them, each item unchanged but for its maps_link, whatever the requested
\* number of days; the empty object is rejected with None
C22_Amended ==
    /\ (call.op = "generate_itinerary" /\ WellFormedItinerary(call.itinerary_data)
          /\ call.itinerary_data # Dict({}))
         => PassedThrough(call.itinerary_data, ret)
    /\ (call.op = "generate_itinerary" /\ call.itinerary_data = Dict({}))
         => ret = PyNone

\* a result of two days for a request of three, one of its days without
\* meals, one of its activities with a link added
C22_Witness ==
    /\ call.op = "generate_itinerary"
    /\ WellFormedItinerary(call.itinerary_data)
    /\ IsDict(ret)
    /\ calculate_days_between(call.args.start_date, call.args.end_date) = 3
    /\ LET given == Get(call.itinerary_data, "daily_itinerary", List(<<>>))[2]
           days == Get(ret, "daily_itinerary", List(<<>>))[2]
       IN  /\ Len(given) = 2 /\ Len(days) = 2
           /\ ~ HasKey(given[2], "meals")
           /\ Len(Get(given[1], "activities", List(<<>>))[2]) = 2
           /\ \E j \in 1..2 : HasKey(Get(days[1], "activities", List(<<>>))[2][j], "maps_link")

\* ---- C23 ----

\* the structured generation the operation consumed failed: the provider
\* call raised or its text could not be parsed
StructuredGenerationFailed ==
    CASE call.op = "generate_itinerary" -> call.itinerary_data = PyNone
      [] call.op \in {"find_hotels", "find_restaurants", "get_destination_info"} ->
           call.failure # "none"
      [] OTHER -> FALSE

\* C23: when structured generation failed, the operation that consumed it
\* (generate_itinerary, find_hotels, find_restaurants, get_destination_info)
\* returns the failure value None, never an empty list or another structure
\* that a valid empty answer gives as well
C23_Claim == StructuredGenerationFailed => ret = PyNone

\* ---- C29 ----

\* get_destination_info was called with use_cache on for a city and country
\* whose info an earlier call generated and cached, and the cache was read
CachedCall ==
    /\ call.op = "get_destination_info"
    /\ call.use_cache
    /\ call.first # PyNone
    /\ ~ call.read_error

\* C29: a call with use_cache on that follows the call which generated and
\* cached the info of the same city and country makes no provider call and
\* returns the same info as that call, best_time_to_visit, local_tips and
\* coordinates included
C29_Claim == CachedCall => (~ call.provider_called /\ ret = call.first)

\* ---- C30 ----

\* session s went through the security check of delete_trip in this step
Checks(s) == call.by[s].pc = "idle" /\ call'.by[s].pc # "idle"

\* C30: delete_trip(trip_id, user_id) takes from the table nothing but the
\* trip trip_id, and only when that trip is there and belongs to user_id; a
\* call for a trip that is missing or belongs to another user returns False
\* and leaves the table as it is
C30_DeleteOnlyOwnTrip ==
    [][ /\ trips' # trips =>
            \E s \in Sessions : \E row \in trips :
               /\ call.by[s].pc = "delete" /\ call'.by[s].pc = "done"
               /\ row.trip_id = call.by[s].trip_id
               /\ row.user_id = call.by[s].user_id
               /\ trips' = trips \ {row}
        /\ \A s \in Sessions :
             (/\ Checks(s)
              /\ ~ \E row \in trips : /\ row.trip_id = call'.by[s].trip_id
                                      /\ row.user_id = call'.by[s].user_id)
             => /\ ret'[s] = Bool(FALSE)
                /\ call'.by[s].pc = "done"
                /\ trips' = trips
      ]_vars

\* one request deleted its own trip 1 and was told True, the other asked
\* for trip 2 of another user and was told False; trip 2 is still there
C30_Witness ==
    /\ call.op = "delete_trip"
    /\ call.by["s1"] = [ pc |-> "done", trip_id |-> 1, user_id |-> 1 ]
    /\ ret["s1"] = Bool(TRUE)
    /\ call.by["s2"] = [ pc |-> "done", trip_id |-> 2, user_id |-> 1 ]
    /\ ret["s2"] = Bool(FALSE)
    /\ errorLog = {}
    /\ \A row \in trips : row.trip_id # 1
    /\ \E row \in trips : row.trip_id = 2 /\ row.user_id = 2

\* ---- C24 ----

\* what follows the first marker of the text
AfterFirst(text, marker) ==
    SubSeq(text, find(text, marker, 1) + Len(marker), Len(text))

\* the text up to its first fence marker, all of it where it has none
UpToFence(text) ==
    IF find(text, Fence, 1) = 0 THEN text
    ELSE SubSeq(text, 1, find(text, Fence, 1) - 1)

\* the text from its first to its last character that is no whitespace
Trimmed(text) ==
    LET inked == { k \in 1..Len(text) : text[k] \notin Whitespace }
    IN  IF inked = {} THEN <<>>
        ELSE SubSeq(text, CHOOSE k \in inked : \A l \in inked : k <= l,
                          CHOOSE k \in inked : \A l \in inked : l <= k)

\* C24: the string handed to the parser is, trimmed of surrounding
\* whitespace: the content after the first JSON-tagged fence up to the next
\* fence marker (or the end of the text) if the response has a tagged fence
\* anywhere, be it after an untagged block; else the content between the
\* first fence marker and the next if it has any fence; else the whole text
C24_ExtractionPriority ==
    hpc = "parse" =>
        json_str = Trimmed(
            IF find(response, JsonFence, 1) > 0
            THEN UpToFence(AfterFirst(response, JsonFence))
            ELSE IF find(response, Fence, 1) > 0
                 THEN UpToFence(AfterFirst(response, Fence))
                 ELSE response)

\* a response whose first fence is untagged and stands before a tagged
\* block: the content of the tagged block, a document, goes to the parser
C24_Witness ==
    /\ hpc = "parse"
    /\ find(response, Fence, 1) = 1
    /\ find(response, JsonFence, 1) > 1
    /\ json_str # <<>>
    /\ loads(json_str).ok
    /\ json_str # Trimmed(UpToFence(AfterFirst(response, Fence)))

\* ---- C25 ----

Braces == {"{", "}"}

\* the text from its first opening brace to its last closing brace
Embraced(text) == SubSeq(text, find(text, <<"{">>, 1), rfind(text, "}", Len(text)))

\* an unfenced text made of prose without braces, one valid JSON object,
\* and prose without braces; the prose is no JSON around the object, so
\* that the text as a whole is not valid JSON
ProseAroundObject(text) ==
    LET i == find(text, <<"{">>, 1)
        j == rfind(text, "}", Len(text))
    IN  /\ ~ Contains(text, Fence)
        /\ i # 0 /\ j # 0 /\ i < j
        /\ \A k \in 1..(i - 1) : text[k] \notin Braces
        /\ \A k \in (j + 1)..Len(text) : text[k] \notin Braces
        /\ ~ loads(Trimmed(text)).ok
        /\ loads(Embraced(text)).ok

\* C25 as stated: for every unfenced response of prose, one valid JSON
\* object and prose, the prose without braces, generate_json_response
\* returns the parse of that object, after the parse as it is failed
C25_Original ==
    (Returned /\ ProseAroundObject(response))
        => (parsed = loads(Embraced(response)).val /\ "repair" \in ran)

\* C25 amended: the same, for an object none of whose string values holds a
\* comma followed, after optional whitespace, by a closing brace or bracket
C25_Amended ==
    (/\ Returned /\ ProseAroundObject(response)
     /\ \A k \in 1..Len(Embraced(response)) : ~ CommaBeforeCloser(Embraced(response), k))
        => (parsed = loads(Embraced(response)).val /\ "repair" \in ran)

\* an object with an object inside, between prose of brackets and commas,
\* was returned
C25_Witness ==
    /\ Returned /\ ProseAroundObject(response)
    /\ \A k \in 1..Len(Embraced(response)) : ~ CommaBeforeCloser(Embraced(response), k)
    /\ response[1] = "[" /\ response[Len(response)] = "]"
    /\ parsed[1] = "dict"
    /\ \E p \in parsed[2] : p[2][1] = "dict" /\ p[2][2] # {}

\* ---- C26 ----

\* session s executes the INSERT of its flow in this step
Inserts(s) == count'[s].insert = count[s].insert + 1

\* C26: within one generate_itinerary flow the INSERT comes after the
\* duplicate check, and only for an authenticated user whose check did not
\* signal a duplicate and whose provider call and normalization succeeded;
\* the table changes in no other step, and a flow whose generation or
\* parsing failed makes no INSERT
C26_CheckBeforeInsert ==
    /\ [][ /\ \A s \in Sessions :
                Inserts(s) =>
                    /\ count[s].check = 1
                    /\ count[s].llm = 1
                    /\ Authenticated(s)
                    /\ dup[s] = "False"
                    /\ llm[s] = "Mapping"
           /\ trips' # trips => \E s \in Sessions : Inserts(s)
         ]_vars
    /\ [](\A s \in Sessions :
            llm[s] \in {"ProviderError", "ParseError"} => count[s].insert = 0)

\* one flow has inserted its row after its check and its generation, while
\* the other, logged in too, failed in generation and inserted nothing
C26_Witness ==
    /\ pc["s1"] = "done" /\ count["s1"] = [ llm |-> 1, check |-> 1, insert |-> 1 ]
    /\ result["s1"].trip_id # None
    /\ pc["s2"] = "done" /\ Authenticated("s2") /\ dup["s2"] = "False"
    /\ llm["s2"] \in {"ProviderError", "ParseError"}
    /\ count["s2"] = [ llm |-> 1, check |-> 1, insert |-> 0 ]
    /\ Cardinality(trips) = 1

\* ---- C27 ----

\* C27: for every successful generate_itinerary result, trip_id is None if
\* and only if the request was anonymous or the duplicate check flagged a
\* duplicate; so the page's notice that the trip was not saved, being
\* similar to an existing trip, is shown to a logged-in user only when a
\* duplicate was detected
C27_Claim ==
    \A s \in Sessions :
        /\ (pc[s] = "done" /\ result[s].kind = "itinerary") =>
              (result[s].trip_id = None <=> (~ Authenticated(s) \/ dup[s] = "True"))
        /\ similar_trip_notice(s) => dup[s] = "True"

\* ---- C28 ----

\* the flow returned a failure: None, or an exception
FailureReturned(s) == pc[s] = "done" /\ result[s].kind \in {"None", "raise"}

\* C28: when the duplicate lookup of the flow raised, _check_duplicate_trip
\* answered not-duplicate and user_id was kept; the flow went on to the
\* provider call and, with an itinerary, to the INSERT, whose row is
\* persisted unless the INSERT itself raised; what the flow returns as a
\* failure comes from the generation, never from the lookup
C28_LookupErrorIsNotDuplicate ==
    LookupRaised =>
        /\ dup["s1"] = "False"
        /\ user_id["s1"] = args["s1"].user_id
        /\ pc["s1"] \in {"generate", "save", "lastid", "done"}
        /\ pc["s1"] = "done" => count["s1"].llm = 1
        /\ (pc["s1"] = "done" /\ llm["s1"] = "Mapping") => count["s1"].insert = 1
        /\ (pc["s1"] = "done" /\ llm["s1"] = "Mapping"
              /\ "Error saving trip to database" \notin errorLog) => Persisted("s1")
        /\ FailureReturned("s1") => llm["s1"] # "Mapping"

\* the lookup raised over a table that holds the same trip, and the flow
\* saved the trip a second time and returned its id
C28_Witness ==
    /\ LookupRaised
    /\ pc["s1"] = "done" /\ Persisted("s1")
    /\ errorLog = {"Error checking duplicate trip"}
    /\ \E t1, t2 \in trips : t1.trip_id # t2.trip_id /\ SameTrip(t1, t2)

====
